---- MODULE Spec2Model ----
(***************************************************************************)
(* A model of rclone's crypt backend (backend/crypt/crypt.go): the wrapper *)
(* Fs / Object / ObjectInfo around an underlying store, together with the  *)
(* cipher it drives (header, per-object CEK, 64 KiB sealed blocks, sealed  *)
(* plaintext-hash footer, size arithmetic, name transforms).               *)
(*                                                                         *)
(* Byte strings are modelled by their true lengths.  A plaintext of length *)
(* p is the extent [0, p) of the source "B"; a ciphertext is a sequence of *)
(* items (magic, nonce, sealed box, hash header byte), each with its byte  *)
(* length, so that every offset the code computes is computed here with    *)
(* the program's own constants.  The sealed box is symbolic: a box opens   *)
(* exactly under the key and the nonce it was sealed with, and only if no  *)
(* bit of it was changed.                                                  *)
(***************************************************************************)
EXTENDS Integers, Sequences, FiniteSets, TLC

VARIABLES
    opt,      \* f.opt: the configuration of the crypt Fs
    dataKey,  \* f.cipher.dataKey: the master key derived from the passwords
    obj,      \* the object held by the underlying store (and what was put)
    wobj,     \* the wrapping *Object: its recorded cipherVersion
    res       \* what the last operation returned

vars == <<opt, dataKey, obj, wobj, res>>

(***************************************************************************)
(* Bounds of the model.                                                    *)
(***************************************************************************)
\* plaintexts have up to MaxBlocks full blocks (plus a few bytes)
MaxBlocks == 2
\* names have up to MaxSegments segments, of an alphabet of NameLetters letters
MaxSegments == 2
NameLetters == 3
\* underlying listings have up to MaxEntries entries
MaxEntries == 2
\* the longest run of increment() calls on one nonce
MaxIncrements == 260

(***************************************************************************)
(* Program constants.                                                      *)
(***************************************************************************)
\* crypt.go:33
HashCryptSize == 16
\* secretbox.Overhead, crypt.go:34
blockHeaderSize == 16
HashEncryptedSize == HashCryptSize + blockHeaderSize
HashEncryptedSizeWithHeader == 1 + HashEncryptedSize
\* crypt.go:37, crypt.go:38
HashHeaderNoHash == 0
HashHeaderMD5 == 1

\* the cipher's constants (container layout)
fileMagicSize == 8
fileNonceSize == 24
\* "1 byte shorter nonce" (crypt.go:204): the last byte of a V2 nonce is
\* not stored, it is the last-block flag
fileNonceSizeV2 == 23
fileCekSize == 32
fileEncryptedCekSize == fileCekSize + blockHeaderSize
fileHeaderSize == fileMagicSize + fileNonceSize
fileHeaderSizeV2 == fileMagicSize + fileNonceSizeV2 + fileEncryptedCekSize
blockDataSize == 65536
blockSize == blockHeaderSize + blockDataSize
\* bit 7 of the last nonce byte
lastBlockFlag == 128

CipherVersionV1 == "v1"
CipherVersionV2 == "v2"

Min(a, b) == IF a < b THEN a ELSE b
Max(a, b) == IF a < b THEN b ELSE a

(***************************************************************************)
(* Nonce: 24 bytes, a little-endian counter.                               *)
(***************************************************************************)
RECURSIVE carry(_, _)
carry(n, i) ==
    IF i > Len(n) THEN n
    ELSE IF n[i] = 255 THEN carry([n EXCEPT ![i] = 0], i + 1)
    ELSE [n EXCEPT ![i] = n[i] + 1]

\* the mutant of increment that drops the carry
incrementNoCarry(n) == [n EXCEPT ![1] = (n[1] + 1) % 256]

\* nonce.increment()
increment(n) == carry(n, 1)

RECURSIVE addFrom(_, _, _)
addFrom(n, i, x) ==
    IF x = 0 \/ i > Len(n) THEN n
    ELSE LET s == n[i] + x
         IN  addFrom([n EXCEPT ![i] = s % 256], i + 1, s \div 256)

\* the mutant of add that adds x to byte 0 and drops the carry
addNoCarry(n, x) == [n EXCEPT ![1] = (n[1] + x) % 256]

\* nonce.add(x)
add(n, x) == addFrom(n, 1, x)

\* a carry out of the top byte of the counter
carryOverflows(n, i) == \A j \in i..Len(n) : n[j] = 255

RECURSIVE addOverflows(_, _, _)
addOverflows(n, i, x) ==
    IF x = 0 THEN FALSE
    ELSE IF i > Len(n) THEN TRUE
    ELSE addOverflows(n, i + 1, (n[i] + x) \div 256)

\* the outcome of an operation on a nonce: the counter is left as it was
\* when the operation ends in the fatal NonceOverflow
NonceResult(n, err) == [n |-> n, err |-> err]

incrementOrFail(n) ==
    IF carryOverflows(n, 1) THEN NonceResult(n, "NonceOverflow")
    ELSE NonceResult(increment(n), "")

addOrFail(n, x) ==
    IF addOverflows(n, 1, x) THEN NonceResult(n, "NonceOverflow")
    ELSE NonceResult(add(n, x), "")

\* nonce[len(nonce)-1] = lastBlockFlag
setLastByte(n) == [n EXCEPT ![Len(n)] = lastBlockFlag]

\* setLastBlockFlag: sets bit 7 of the last byte
setLastBlockFlag(n) ==
    [n EXCEPT ![Len(n)] = IF n[Len(n)] >= lastBlockFlag THEN n[Len(n)]
                          ELSE n[Len(n)] + lastBlockFlag]

clearLastByte(n) == [n EXCEPT ![Len(n)] = 0]

hasLastBlockFlag(n) == n[Len(n)] >= lastBlockFlag

\* a nonce with the given first two bytes and last byte, zero elsewhere
MkNonce(b1, b2, last) ==
    [i \in 1..fileNonceSize |->
        IF i = 1 THEN b1 ELSE IF i = 2 THEN b2
        ELSE IF i = fileNonceSize THEN last ELSE 0]

ZeroNonce == MkNonce(0, 0, 0)

\* the nonces the random source may deliver: all 24 bytes for V1, 23 bytes
\* (last byte zero) for V2
RandomNonces(version) ==
    IF version = CipherVersionV1
    THEN {MkNonce(7, 0, 3), MkNonce(255, 255, 200)}
    ELSE {MkNonce(255, 255, 0)}

RandomCeks == {"cekA", "cekB"}
MasterKeys == {"master1", "master2"}
NoKey == ""

(***************************************************************************)
(* Ciphertext items.                                                       *)
(***************************************************************************)
NoPt == [kind |-> "none", lo |-> 0, hi |-> 0, k |-> NoKey]
DataPt(lo, hi) == [kind |-> "data", lo |-> lo, hi |-> hi, k |-> NoKey]
CekPt(k) == [kind |-> "cek", lo |-> 0, hi |-> 0, k |-> k]
\* the MD5 of the plaintext bytes [0, p)
HashPt(p) == [kind |-> "md5", lo |-> 0, hi |-> p, k |-> NoKey]

Item(t, len, v, n, key, pt, b, ok) ==
    [t |-> t, len |-> len, v |-> v, n |-> n, key |-> key, pt |-> pt,
     b |-> b, ok |-> ok]

MagicItem(version) ==
    Item("magic", fileMagicSize, version, <<>>, NoKey, NoPt, 0, TRUE)
\* the stored nonce: the first `size` bytes of n
NonceItem(n, size) == Item("nonce", size, "", SubSeq(n, 1, size), NoKey, NoPt, 0, TRUE)
\* secretbox.Seal(plaintext, nonce, key)
Seal(pt, ptLen, n, key) ==
    Item("box", ptLen + blockHeaderSize, "", n, key, pt, 0, TRUE)
ByteItem(b) == Item("byte", 1, "", <<>>, NoKey, NoPt, b, TRUE)
\* bytes that are no whole item (sealed data cut through): as one byte they
\* read as a value that is no hash header
JunkItem(len) == Item("junk", len, "", <<>>, NoKey, NoPt, 255, FALSE)

\* secretbox.Open(box, nonce, key)
OpensUnder(it, n, key) ==
    it.t = "box" /\ it.ok /\ it.key = key /\ it.n = n

RECURSIVE SizeOf(_)
SizeOf(ct) == IF ct = <<>> THEN 0 ELSE Head(ct).len + SizeOf(Tail(ct))

\* the byte offset at which item i of ct starts
RECURSIVE StartOf(_, _)
StartOf(ct, i) == IF i <= 1 THEN 0 ELSE StartOf(ct, i - 1) + ct[i - 1].len

\* the item that occupies exactly the bytes [from, from + len) of ct, or a
\* junk item when those bytes are not one whole item
ItemAt(ct, from, len) ==
    LET hit == {i \in 1..Len(ct) : StartOf(ct, i) = from /\ ct[i].len = len}
    IN  IF hit = {} THEN JunkItem(len) ELSE ct[CHOOSE i \in hit : TRUE]

(***************************************************************************)
(* Size arithmetic of the cipher.                                          *)
(***************************************************************************)
CeilDiv(a, b) == (a + b - 1) \div b

\* Cipher.EncryptedSize: the ciphertext size of `size` plaintext bytes
EncryptedSize(size, version) ==
    LET body == size + blockHeaderSize * CeilDiv(size, blockDataSize)
    IN  IF version = CipherVersionV2
        THEN fileHeaderSizeV2 + body + HashEncryptedSizeWithHeader
        ELSE fileHeaderSize + body

\* Cipher.DecryptedSize: the plaintext size of `size` ciphertext bytes
DecryptedSize(size, version) ==
    LET body == IF version = CipherVersionV2
                THEN size - fileHeaderSizeV2 - HashEncryptedSizeWithHeader
                ELSE size - fileHeaderSize
        blocks == body \div blockSize
        residue == body % blockSize
    IN  IF body < 0 THEN [size |-> 0, err |-> "TooShort"]
        ELSE IF residue = 0 THEN [size |-> blocks * blockDataSize, err |-> ""]
        ELSE IF residue > blockHeaderSize
        THEN [size |-> blocks * blockDataSize + residue - blockHeaderSize,
              err |-> ""]
        ELSE [size |-> 0, err |-> "BadCiphertextLength"]

(***************************************************************************)
(* The encrypter: header, wrapped CEK (V2), sealed blocks.                 *)
(***************************************************************************)
\* the key the blocks of an object are sealed under
BlockKey(version, master, cek) ==
    IF version = CipherVersionV2 THEN cek ELSE master

\* encrypter.Read over the plaintext bytes [lo, p): block after block, each
\* sealed under the encrypter's nonce, which is then incremented; the
\* nonce of the final block carries the last-block flag.  Yields the sealed
\* blocks and the nonce the encrypter is left with.
RECURSIVE encryptBlocks(_, _, _, _)
encryptBlocks(p, lo, n, key) ==
    IF lo >= p THEN [out |-> <<>>, nonce |-> n]
    ELSE LET hi == Min(p, lo + blockDataSize)
             bn == IF hi = p THEN setLastBlockFlag(n) ELSE n
             rest == encryptBlocks(p, hi, increment(bn), key)
         IN  [out |-> <<Seal(DataPt(lo, hi), hi - lo, bn, key)>> \o rest.out,
              nonce |-> rest.nonce]

\* the file header the encrypter emits first
encryptHeader(start, cek, version, master) ==
    IF version = CipherVersionV2
    THEN <<MagicItem(version), NonceItem(start, fileNonceSizeV2),
           Seal(CekPt(cek), fileCekSize, clearLastByte(start), master)>>
    ELSE <<MagicItem(version), NonceItem(start, fileNonceSize)>>

\* the mutant of wrapReaderAppendPlaintextHash that leaves the hash header
\* byte out
wrapReaderAppendPlaintextHashBare(in, hashed, nonce, cek) ==
    in \o <<Seal(HashPt(hashed), HashCryptSize, setLastByte(nonce), cek)>>

\* wrapReaderAppendPlaintextHash: the ciphertext stream `in`, then the hash
\* header and the MD5 of the `hashed` plaintext bytes sealed under the CEK
\* and the encrypter's nonce with its last byte set to lastBlockFlag
wrapReaderAppendPlaintextHash(in, hashed, nonce, cek) ==
    in \o <<ByteItem(HashHeaderMD5),
            Seal(HashPt(hashed), HashCryptSize, setLastByte(nonce), cek)>>

\* Cipher.encryptData: the whole ciphertext of the plaintext [0, p); for V2
\* the reader is tapped by wrapReaderCalculatePlaintextHash and the footer
\* appended once the block stream has ended
encryptData(p, start, cek, version, master) ==
    LET e == encryptBlocks(p, 0, start, BlockKey(version, master, cek))
        body == encryptHeader(start, cek, version, master) \o e.out
    IN  IF version = CipherVersionV2
        THEN wrapReaderAppendPlaintextHash(body, p, e.nonce, cek)
        ELSE body

(***************************************************************************)
(* The decrypter.                                                          *)
(***************************************************************************)
\* the mutant of footerSizeOf that takes every byte after the header as data
footerSizeOfNone(version) == 0

headerSizeOf(version) ==
    IF version = CipherVersionV2 THEN fileHeaderSizeV2 ELSE fileHeaderSize

footerSizeOf(version) ==
    IF version = CipherVersionV2 THEN HashEncryptedSizeWithHeader ELSE 0

\* an open read handle on the underlying object: the bytes [from, to)
Window(ct, from, to) ==
    [from |-> Min(from, SizeOf(ct)), to |-> Min(Max(to, from), SizeOf(ct))]

nonceSizeOf(version) ==
    IF version = CipherVersionV2 THEN fileNonceSizeV2 ELSE fileNonceSize

\* a decrypter: its error, the version its magic gave, start nonce and CEK
Decrypter(err, version, nonce, cek) ==
    [err |-> err, cipherVersion |-> version, nonce |-> nonce, cek |-> cek]

NoDecrypter(err) == Decrypter(err, "", ZeroNonce, NoKey)

\* the start nonce of the header, <<>> when the header ends before it does;
\* the 23 bytes of a V2 header are followed by a zero byte
headerNonce(ct, version) ==
    LET nit == ItemAt(ct, fileMagicSize, nonceSizeOf(version))
    IN  IF nit.t # "nonce" THEN <<>>
        ELSE IF version = CipherVersionV2 THEN nit.n \o <<0>> ELSE nit.n

\* the CEK of a V2 header unwrapped under the master key
unwrapCek(version, nonce, master, wrapped) ==
    IF OpensUnder(wrapped, clearLastByte(nonce), master)
    THEN Decrypter("", version, nonce, wrapped.pt.k)
    ELSE NoDecrypter("CEKUnwrapFailed")

\* the header after its magic
readHeader(ct, win, overrideCek, master, version, nonce) ==
    IF win.to < fileMagicSize + nonceSizeOf(version) \/ nonce = <<>>
    THEN NoDecrypter("Truncated")
    ELSE IF version = CipherVersionV1
    THEN Decrypter("", version, nonce, NoKey)
    ELSE IF overrideCek # NoKey
    THEN Decrypter("", version, nonce, overrideCek)
    ELSE IF win.to < fileHeaderSizeV2 THEN NoDecrypter("Truncated")
    ELSE unwrapCek(version, nonce, master,
                   ItemAt(ct, fileMagicSize + fileNonceSizeV2,
                          fileEncryptedCekSize))

\* Cipher.newDecrypter: reads the header through the read handle `win`
\* (opened at offset 0): the magic picks the version, then the start nonce,
\* then (V2) the CEK, unwrapped under the master key unless an override CEK
\* is given.  A header that ends early is a truncated file.
newDecrypter(ct, win, overrideCek, master) ==
    IF win.from # 0 \/ win.to < fileMagicSize THEN NoDecrypter("Truncated")
    ELSE IF ItemAt(ct, 0, fileMagicSize).t # "magic"
    THEN NoDecrypter("BadHeader")
    ELSE readHeader(ct, win, overrideCek, master,
                    ItemAt(ct, 0, fileMagicSize).v,
                    headerNonce(ct, ItemAt(ct, 0, fileMagicSize).v))

\* the plaintext a block delivers
Extent(src, lo, hi) == [src |-> src, lo |-> lo, hi |-> hi]
PlainOf(it) == Extent(IF it.pt.kind = "data" THEN "B" ELSE it.pt.kind,
                      it.pt.lo, it.pt.hi)
ZeroBlock == Extent("zero", 0, blockDataSize)

\* decrypter.Read to the end of the stream: the blocks in [from, dataEnd),
\* blockSize bytes each but the last, block after block under the current
\* nonce.  The block the stream ends with must open with the last-block
\* flag set; when it opens only without it the stream was cut there.
RECURSIVE readBlocks(_, _, _, _, _, _)
readBlocks(ct, key, n, from, dataEnd, passBadBlocks) ==
    IF from >= dataEnd THEN [out |-> <<>>, err |-> "EOF"]
    ELSE LET len == Min(blockSize, dataEnd - from)
             it == ItemAt(ct, from, len)
         IN  IF from + len = dataEnd
             THEN IF OpensUnder(it, setLastBlockFlag(n), key)
                  THEN [out |-> <<PlainOf(it)>>, err |-> "EOF"]
                  ELSE IF OpensUnder(it, n, key)
                  THEN [out |-> <<PlainOf(it)>>, err |-> "Truncated"]
                  ELSE IF passBadBlocks
                  THEN [out |-> <<ZeroBlock>>, err |-> "EOF"]
                  ELSE [out |-> <<>>, err |-> "BadBlock"]
             ELSE IF OpensUnder(it, n, key) \/ passBadBlocks
             THEN LET rest == readBlocks(ct, key, increment(n), from + len,
                                         dataEnd, passBadBlocks)
                  IN  [out |-> <<IF OpensUnder(it, n, key) THEN PlainOf(it)
                                 ELSE ZeroBlock>> \o rest.out,
                       err |-> rest.err]
             ELSE [out |-> <<>>, err |-> "BadBlock"]

\* the first `discard` bytes of the first block are dropped after a seek
Discard(out, discard) ==
    IF discard = 0 \/ out = <<>> THEN out
    ELSE <<[out[1] EXCEPT !.lo = out[1].lo + discard]>> \o Tail(out)

\* extents joined where they are adjacent, empty ones dropped
RECURSIVE Norm(_)
Norm(out) ==
    IF out = <<>> THEN <<>>
    ELSE IF out[1].lo >= out[1].hi THEN Norm(Tail(out))
    ELSE LET rest == Norm(Tail(out))
         IN  IF rest # <<>> /\ rest[1].src = out[1].src
                /\ rest[1].lo = out[1].hi
             THEN <<[out[1] EXCEPT !.hi = rest[1].hi]>> \o Tail(rest)
             ELSE <<out[1]>> \o rest

\* the bytes [lo, p) of the plaintext
Suffix(lo, p) == Norm(<<Extent("B", lo, p)>>)

(***************************************************************************)
(* crypt.go: Object.Open and what it hands to the cipher.                  *)
(***************************************************************************)
SeekOption(offset) == [kind |-> "seek", offset |-> offset, cek |-> NoKey]
CekOption(cek) == [kind |-> "cek", offset |-> 0, cek |-> cek]
OtherOption == [kind |-> "other", offset |-> 0, cek |-> NoKey]
\* fs.RangeOption{Start: start, End: -1}: Decode gives (start, -1)
RangeOption(start) == [kind |-> "range", offset |-> start, cek |-> NoKey]

\* the last option of the given kind, or `default`
RECURSIVE LastOf(_, _, _)
LastOf(options, kind, default) ==
    IF options = <<>> THEN default
    ELSE IF options[Len(options)].kind = kind THEN options[Len(options)]
    ELSE LastOf(SubSeq(options, 1, Len(options) - 1), kind, default)

\* the mutant of OpenCustomCek that drops the CekOption
OpenCustomCekDropped(options) == NoKey

\* the mutant of OpenOptions that passes every option on
OpenOptionsAll(options) == options

\* the option loop of Object.Open
RECURSIVE OpenOffset(_)
OpenOffset(options) ==
    IF options = <<>> THEN 0
    ELSE IF options[Len(options)].kind \in {"seek", "range"}
    THEN options[Len(options)].offset
    ELSE OpenOffset(SubSeq(options, 1, Len(options) - 1))
OpenCustomCek(options) == LastOf(options, "cek", CekOption(NoKey)).cek
OpenOptions(options) == SelectSeq(options, LAMBDA x : x.kind = "other")

\* the mutant of OpenRequest that opens a seek one byte late
OpenRequestLate(size, underlyingOffset, underlyingLimit, openOptions) ==
    [range |-> TRUE, start |-> underlyingOffset + 1, end |-> -1,
     opts |-> openOptions]

\* the open callback Object.Open gives the decrypter: the request made to
\* the underlying object for (underlyingOffset, underlyingLimit)
OpenRequest(size, underlyingOffset, underlyingLimit, openOptions) ==
    IF underlyingOffset = 0 /\ underlyingLimit < 0
    THEN [range |-> FALSE, start |-> 0, end |-> -1, opts |-> openOptions]
    ELSE LET e == IF underlyingLimit >= 0
                  THEN underlyingOffset + underlyingLimit - 1 ELSE -1
         IN  [range |-> TRUE, start |-> underlyingOffset,
              end |-> IF e >= size THEN -1 ELSE e, opts |-> openOptions]

\* o.Object.Open of the underlying object with the request's RangeOption
UnderlyingOpen(ct, req) ==
    IF ~req.range THEN Window(ct, 0, SizeOf(ct))
    ELSE Window(ct, req.start,
                IF req.end < 0 THEN SizeOf(ct) ELSE req.end + 1)

\* what a stream read to its end gave
StreamResult(out, err, reqs, d) ==
    [out |-> out, err |-> err, reqs |-> reqs,
     cipherVersion |-> d.cipherVersion]

\* the bytes before the offset dropped from what was read; an offset past
\* the end of the data is out of range
seekDiscard(discard, d, reqs, r) ==
    IF r.out = <<>> /\ r.err = "EOF" /\ discard > 0
    THEN StreamResult(<<>>, "OutOfRange", reqs, d)
    ELSE IF r.out # <<>> /\ discard > r.out[1].hi - r.out[1].lo
    THEN StreamResult(<<>>, "OutOfRange", reqs, d)
    ELSE StreamResult(Norm(Discard(r.out, discard)), r.err, reqs, d)

\* the blocks of [from, dataEnd) read under the nonce moved on to the block
\* holding the offset
readFrom(ct, offset, master, passBadBlocks, d, reqs, from, dataEnd) ==
    IF d.err # "" THEN StreamResult(<<>>, d.err, reqs, d)
    ELSE IF SizeOf(ct) - headerSizeOf(d.cipherVersion)
            < footerSizeOf(d.cipherVersion)
    THEN StreamResult(<<>>, "Truncated", reqs, d)
    ELSE IF from > dataEnd THEN StreamResult(<<>>, "OutOfRange", reqs, d)
    ELSE seekDiscard(offset % blockDataSize, d, reqs,
                     readBlocks(ct, BlockKey(d.cipherVersion, master, d.cek),
                                add(d.nonce, offset \div blockDataSize),
                                from, dataEnd, passBadBlocks))

\* the stream behind the last request made; for V2 its last
\* HashEncryptedSizeWithHeader bytes are the footer, not data
readStream(ct, offset, master, passBadBlocks, d, reqs) ==
    readFrom(ct, offset, master, passBadBlocks, d, reqs,
             IF offset = 0 THEN headerSizeOf(d.cipherVersion)
             ELSE reqs[Len(reqs)].start,
             UnderlyingOpen(ct, reqs[Len(reqs)]).to
                - footerSizeOf(d.cipherVersion))

\* decrypter.RangeSeek: a read from offset 0 goes on through the handle the
\* header was read from; a seek reopens the underlying object at the block
\* holding the offset
RangeSeek(ct, offset, master, passBadBlocks, openOptions, first, d) ==
    readStream(ct, offset, master, passBadBlocks, d,
               IF offset = 0 \/ d.err # "" THEN <<first>>
               ELSE <<first,
                      OpenRequest(SizeOf(ct),
                                  headerSizeOf(d.cipherVersion)
                                    + (offset \div blockDataSize) * blockSize,
                                  -1, openOptions)>>)

\* the request the header is read through
HeaderRequest(size, offset, openOptions) ==
    IF offset = 0 THEN OpenRequest(size, 0, -1, openOptions)
    ELSE OpenRequest(size, 0, Max(fileHeaderSize, fileHeaderSizeV2),
                     openOptions)

\* Cipher.DecryptDataSeek followed by reading the stream to its end: the
\* header is read first, then the blocks from the one holding the offset
DecryptDataSeek(ct, offset, customCek, master, passBadBlocks, openOptions) ==
    RangeSeek(ct, offset, master, passBadBlocks, openOptions,
              HeaderRequest(SizeOf(ct), offset, openOptions),
              newDecrypter(ct,
                           UnderlyingOpen(ct, HeaderRequest(SizeOf(ct), offset,
                                                            openOptions)),
                           customCek, master))

\* the mutant of cipherPassBadBlocks that always passes bad blocks
cipherPassBadBlocksAlways == TRUE

\* cipher.setPassBadBlocks(opt.PassBadBlocks), cipher.setExactSize(opt.ExactSize)
cipherPassBadBlocks == opt.PassBadBlocks
cipherExactSize == opt.ExactSize

\* the mutant of ObjectOpen that hands out the stored bytes as they are
ObjectOpenRaw(ct, options) ==
    [out |-> Norm(<<Extent("raw", 0, SizeOf(ct))>>), err |-> "EOF",
     reqs |-> <<[range |-> FALSE, start |-> 0, end |-> -1, opts |-> options]>>,
     cipherVersion |-> ""]

\* Object.Open, read to the end of the stream
ObjectOpen(ct, options) ==
    IF opt.NoDataEncryption
    THEN [out |-> IF ct = <<>> THEN <<>>
                  ELSE IF ct[1].t = "plain"
                  THEN Norm(Discard(<<PlainOf(ct[1])>>, OpenOffset(options)))
                  ELSE Norm(Discard(<<Extent("raw", 0, SizeOf(ct))>>,
                                    OpenOffset(options))),
          err |-> "EOF",
          reqs |-> <<[range |-> FALSE, start |-> 0, end |-> -1,
                      opts |-> options]>>,
          cipherVersion |-> ""]
    ELSE DecryptDataSeek(ct, OpenOffset(options), OpenCustomCek(options),
                         dataKey, cipherPassBadBlocks, OpenOptions(options))

(***************************************************************************)
(* crypt.go: getDecrypter, Object.Hash, Object.Size, ObjectInfo.Size.      *)
(***************************************************************************)
\* Fs.getDecrypter: the header read through a range request for the longer
\* of the two headers; the decrypter comes back closed
getDecrypterRequest ==
    [range |-> TRUE, start |-> 0,
     end |-> Max(fileHeaderSize, fileHeaderSizeV2) - 1, opts |-> <<>>]

getDecrypter(ct, overrideCek) ==
    newDecrypter(ct, UnderlyingOpen(ct, getDecrypterRequest), overrideCek,
                 dataKey)

\* Cipher.DecryptedSizeExact: the version is read from the object's header
DecryptedSizeExact(ct) ==
    LET d == getDecrypter(ct, NoKey)
    IN  IF d.err # "" THEN [size |-> 0, err |-> d.err]
        ELSE DecryptedSize(SizeOf(ct), d.cipherVersion)

NoHash == [kind |-> "", of |-> 0]

\* totalBlocks of Object.Hash:
\* uint64(math.Ceil(float64(decryptedSize) / float64(blockSize)));
\* the float64 arithmetic is exact for the sizes of the model (below 2^53)
TotalBlocks(decryptedSize) == CeilDiv(decryptedSize, blockSize)

\* the nonce Object.Hash opens the sealed hash under
HashNonce(startNonce, decryptedSize) ==
    setLastByte(add(startNonce, TotalBlocks(decryptedSize)))

HashResult(hash, err, d) ==
    [hash |-> hash, err |-> err, cipherVersion |-> d.cipherVersion]

\* the mutant of openHash that hands out the footer's hash unauthenticated
openHashUnchecked(encryptedHash, d, ds) ==
    IF ds.err # "" THEN HashResult(NoHash, ds.err, d)
    ELSE HashResult([kind |-> encryptedHash.pt.kind,
                     of |-> encryptedHash.pt.hi], "", d)

\* Object.Hash once the decrypted size is known: the sealed hash opened
\* under the CEK and the nonce derived from the start nonce
openHash(encryptedHash, d, ds) ==
    IF ds.err # "" THEN HashResult(NoHash, ds.err, d)
    ELSE IF OpensUnder(encryptedHash, HashNonce(d.nonce, ds.size), d.cek)
    THEN HashResult([kind |-> encryptedHash.pt.kind,
                     of |-> encryptedHash.pt.hi], "", d)
    ELSE IF ~cipherPassBadBlocks THEN HashResult(NoHash, "BadBlock", d)
    ELSE HashResult(NoHash, "", d)

\* Object.Hash once the header is read: the footer read through a range
\* request for the last HashEncryptedSizeWithHeader bytes
readHash(ct, d) ==
    IF d.err # "" THEN HashResult(NoHash, d.err, d)
    ELSE IF d.cipherVersion = CipherVersionV1 THEN HashResult(NoHash, "", d)
    ELSE IF SizeOf(ct) < HashEncryptedSizeWithHeader
    THEN HashResult(NoHash, "IncorrectHashSize", d)
    ELSE IF ItemAt(ct, SizeOf(ct) - HashEncryptedSizeWithHeader, 1).b
            = HashHeaderNoHash
    THEN HashResult(NoHash, "ErrUnsupported", d)
    ELSE openHash(ItemAt(ct, SizeOf(ct) - HashEncryptedSize,
                         HashEncryptedSize),
                  d,
                  IF cipherExactSize THEN DecryptedSizeExact(ct)
                  ELSE DecryptedSize(SizeOf(ct), d.cipherVersion))

\* the mutant of ObjectHash that reads the header under every configuration
ObjectHashDetecting(ct) == readHash(ct, getDecrypter(ct, NoKey))

\* Object.Hash
ObjectHash(ct) ==
    IF opt.CipherVersion = CipherVersionV1
    THEN HashResult(NoHash, "ErrUnsupported", NoDecrypter(""))
    ELSE readHash(ct, getDecrypter(ct, NoKey))

\* the size, the cipherVersion the object is left with and the requests made
\* to the underlying object
SizeResult(size, cipherVersion, reqs) ==
    [size |-> size, cipherVersion |-> cipherVersion, reqs |-> reqs]

\* the mutant of ObjectSize that never reads the header
ObjectSizeConfigured(ct, cipherVersion) ==
    IF opt.NoDataEncryption THEN SizeResult(SizeOf(ct), cipherVersion, <<>>)
    ELSE SizeResult(DecryptedSize(SizeOf(ct),
                                  IF cipherVersion # "" THEN cipherVersion
                                  ELSE opt.CipherVersion).size,
                    cipherVersion, <<>>)

\* Object.Size
ObjectSize(ct, cipherVersion) ==
    IF opt.NoDataEncryption THEN SizeResult(SizeOf(ct), cipherVersion, <<>>)
    ELSE IF opt.ExactSize /\ cipherVersion = ""
    THEN SizeResult(DecryptedSizeExact(ct).size,
                    getDecrypter(ct, NoKey).cipherVersion,
                    <<getDecrypterRequest>>)
    ELSE SizeResult(DecryptedSize(SizeOf(ct),
                                  IF cipherVersion # "" THEN cipherVersion
                                  ELSE opt.CipherVersion).size,
                    cipherVersion, <<>>)

\* the mutant of ObjectInfoSize that announces the plaintext size
ObjectInfoSizePlain(size) == size

\* ObjectInfo.Size: the size announced to the underlying put
ObjectInfoSize(size) ==
    IF size < 0 THEN size
    ELSE IF opt.NoDataEncryption THEN size
    ELSE EncryptedSize(size, opt.CipherVersion)

(***************************************************************************)
(* Names.  A name is a sequence of segments (the path split on "/"); a     *)
(* segment is text (a sequence of characters: Dot, or a letter             *)
(* 1..NameLetters), or the encoding `enc` of the EME encryption under      *)
(* `key` of the text `chars`, followed by the characters `tail`.           *)
(***************************************************************************)
Dot == 0
Text(chars) ==
    [t |-> "text", key |-> NoKey, enc |-> "", chars |-> chars, tail |-> <<>>]
Eme(key, enc, chars) ==
    [t |-> "eme", key |-> key, enc |-> enc, chars |-> chars, tail |-> <<>>]

\* fileEncryptedSuffix, ".bin"
SuffixBin == <<Dot, 2, 1>>

NameResult(name, err) == [name |-> name, err |-> err]

\* the rotation the obfuscation derives from the key
Rot(key) == IF key = "master1" THEN 1 ELSE 2

rotate(c, r) ==
    IF c = Dot THEN c ELSE ((c - 1 + r) % NameLetters) + 1

\* encryptSegment: one segment per the name encryption mode
encryptSegment(seg) ==
    IF seg.chars = <<>> THEN seg
    ELSE IF opt.FilenameEncryption = "standard"
    THEN Eme(dataKey, opt.FilenameEncoding, seg.chars)
    ELSE IF opt.FilenameEncryption = "obfuscate"
    THEN Text([i \in 1..Len(seg.chars) |->
                  rotate(seg.chars[i], Rot(dataKey))])
    ELSE seg

\* decryptSegment
decryptSegment(seg) ==
    IF seg = Text(<<>>) THEN NameResult(seg, "")
    ELSE IF opt.FilenameEncryption = "standard"
    THEN IF seg.t # "eme" \/ seg.tail # <<>>
            \/ seg.enc # opt.FilenameEncoding
         THEN NameResult(seg, "BadEncoding")
         ELSE IF seg.key # dataKey THEN NameResult(seg, "BadCiphertext")
         ELSE NameResult(Text(seg.chars), "")
    ELSE IF opt.FilenameEncryption = "obfuscate"
    THEN IF seg.t # "text" THEN NameResult(seg, "BadEncoding")
         ELSE NameResult(Text([i \in 1..Len(seg.chars) |->
                                  rotate(seg.chars[i],
                                         NameLetters - Rot(dataKey))]),
                         "")
    ELSE NameResult(seg, "")

appendSuffix(seg, sfx) ==
    IF seg.t = "text" THEN [seg EXCEPT !.chars = @ \o sfx]
    ELSE [seg EXCEPT !.tail = @ \o sfx]

EndsWith(chars, sfx) ==
    /\ Len(chars) >= Len(sfx)
    /\ SubSeq(chars, Len(chars) - Len(sfx) + 1, Len(chars)) = sfx

\* the segment without the suffix it must end with
stripSuffix(seg, sfx) ==
    IF seg.t = "text" /\ EndsWith(seg.chars, sfx)
    THEN NameResult([seg EXCEPT !.chars =
                        SubSeq(@, 1, Len(@) - Len(sfx))], "")
    ELSE IF seg.t # "text" /\ EndsWith(seg.tail, sfx)
    THEN NameResult([seg EXCEPT !.tail =
                        SubSeq(@, 1, Len(@) - Len(sfx))], "")
    ELSE NameResult(seg, "MissingSuffix")

\* directory segments are encrypted
dirNameEncrypt ==
    opt.DirectoryNameEncryption /\ opt.FilenameEncryption # "off"

\* the first of a non-empty set of positions
First(bad) == CHOOSE i \in bad : \A j \in bad : i <= j

\* the segments of a name decrypted one by one: the first error, or the name
decryptSegments(segs) ==
    IF \A i \in 1..Len(segs) : segs[i].err = ""
    THEN NameResult([i \in 1..Len(segs) |-> segs[i].name], "")
    ELSE NameResult(<<>>,
                    segs[First({i \in 1..Len(segs) : segs[i].err # ""})].err)

\* Cipher.EncryptFileName
EncryptFileName(path) ==
    [i \in 1..Len(path) |->
        IF i < Len(path)
        THEN IF dirNameEncrypt THEN encryptSegment(path[i]) ELSE path[i]
        ELSE appendSuffix(encryptSegment(path[i]), opt.Suffix)]

\* the final segment, its suffix stripped, decrypted
decryptStripped(stripped) ==
    IF stripped.err # "" THEN stripped ELSE decryptSegment(stripped.name)

\* Cipher.DecryptFileName
DecryptFileName(path) ==
    decryptSegments(
        [i \in 1..Len(path) |->
            IF i < Len(path)
            THEN IF dirNameEncrypt THEN decryptSegment(path[i])
                 ELSE NameResult(path[i], "")
            ELSE decryptStripped(stripSuffix(path[i], opt.Suffix))])

\* Cipher.EncryptDirName
EncryptDirName(path) ==
    IF dirNameEncrypt
    THEN [i \in 1..Len(path) |-> encryptSegment(path[i])]
    ELSE path

\* Cipher.DecryptDirName
DecryptDirName(path) ==
    IF dirNameEncrypt
    THEN decryptSegments([i \in 1..Len(path) |-> decryptSegment(path[i])])
    ELSE NameResult(path, "")

\* Fs.EncryptFileName
FsEncryptFileName(fileName) == EncryptFileName(fileName)

\* Fs.DecryptFileName handing the name to the directory-name decryption
FsDecryptFileNameAsDir(encryptedFileName) == DecryptDirName(encryptedFileName)

\* Fs.DecryptFileName
FsDecryptFileName(encryptedFileName) == DecryptFileName(encryptedFileName)

CommandResult(out, err) == [out |-> out, err |-> err]

\* Fs.Command "encode"
commandEncode(arg) ==
    CommandResult([i \in 1..Len(arg) |-> FsEncryptFileName(arg[i])], "")

\* the names decoded before the first one that fails
decodedUntil(arg, bad) ==
    IF bad = {}
    THEN CommandResult([i \in 1..Len(arg) |->
                           FsDecryptFileName(arg[i]).name], "")
    ELSE CommandResult([i \in 1..(First(bad) - 1) |->
                           FsDecryptFileName(arg[i]).name],
                       "FailedToDecrypt")

\* Fs.Command "decode"
commandDecode(arg) ==
    decodedUntil(arg, {i \in 1..Len(arg) : FsDecryptFileName(arg[i]).err # ""})

(***************************************************************************)
(* crypt.go: listings.  An entry of an underlying listing is an object, a  *)
(* directory or something else, under its stored name.                     *)
(***************************************************************************)
Entry(kind, remote) == [kind |-> kind, remote |-> remote]

\* an entry of the wrapper's listing: f.newObject(obj) or f.newDir(dir)
\* under its decrypted name, wrapping the underlying entry
Wrapped(entry, decryptedRemote) ==
    [kind |-> entry.kind, remote |-> decryptedRemote, under |-> entry.remote]

\* the error of Fs.add and Fs.addDir: the name and why it does not decrypt
NameErr(remote, err) == [remote |-> remote, err |-> err]
NoNameErr == NameErr(<<>>, "")

Added(entries, err) == [entries |-> entries, err |-> err]

\* Fs.add and Fs.addDir failing on every name that does not decrypt
addDecryptedStrict(entry, r) ==
    IF r.err # "" THEN Added(<<>>, NameErr(entry.remote, r.err))
    ELSE Added(<<Wrapped(entry, r.name)>>, NoNameErr)

\* Fs.add and Fs.addDir given what the decryption of the name gave
addDecrypted(entry, r) ==
    IF r.err # ""
    THEN IF opt.StrictNames THEN Added(<<>>, NameErr(entry.remote, r.err))
         ELSE Added(<<>>, NoNameErr)
    ELSE Added(<<Wrapped(entry, r.name)>>, NoNameErr)

\* Fs.add
fsAdd(obj_) == addDecrypted(obj_, DecryptFileName(obj_.remote))

\* Fs.addDir
fsAddDir(dir) == addDecrypted(dir, DecryptDirName(dir.remote))

ListResult(entries, err, errors, firsterr) ==
    [entries |-> entries, err |-> err, errors |-> errors,
     firsterr |-> firsterr]

\* Fs.encryptEntries stopping at the first name that does not decrypt
RECURSIVE encryptEntriesStopping(_, _, _)
encryptEntriesStopping(entries, i, newEntries) ==
    IF i > Len(entries) THEN ListResult(newEntries, "", 0, NoNameErr)
    ELSE IF entries[i].kind \notin {"obj", "dir"}
    THEN ListResult(<<>>, "UnknownObjectType", 0, NoNameErr)
    ELSE IF (IF entries[i].kind = "obj" THEN fsAdd(entries[i])
             ELSE fsAddDir(entries[i])).err # NoNameErr
    THEN ListResult(<<>>, "UndecryptableNames", 1,
                    (IF entries[i].kind = "obj" THEN fsAdd(entries[i])
                     ELSE fsAddDir(entries[i])).err)
    ELSE encryptEntriesStopping(
             entries, i + 1,
             newEntries \o (IF entries[i].kind = "obj" THEN fsAdd(entries[i])
                            ELSE fsAddDir(entries[i])).entries)

\* Fs.encryptEntries: the loop over the entries from entry i on
RECURSIVE encryptEntriesLoop(_, _, _, _, _)
encryptEntriesAdded(entries, i, newEntries, errors, firsterr, a) ==
    encryptEntriesLoop(entries, i + 1, newEntries \o a.entries,
                       IF a.err # NoNameErr THEN errors + 1 ELSE errors,
                       IF a.err # NoNameErr /\ firsterr = NoNameErr
                       THEN a.err ELSE firsterr)

encryptEntriesLoop(entries, i, newEntries, errors, firsterr) ==
    IF i > Len(entries)
    THEN IF firsterr # NoNameErr
         THEN ListResult(<<>>, "UndecryptableNames", errors, firsterr)
         ELSE ListResult(newEntries, "", 0, NoNameErr)
    ELSE IF entries[i].kind = "obj"
    THEN encryptEntriesAdded(entries, i, newEntries, errors, firsterr,
                             fsAdd(entries[i]))
    ELSE IF entries[i].kind = "dir"
    THEN encryptEntriesAdded(entries, i, newEntries, errors, firsterr,
                             fsAddDir(entries[i]))
    ELSE ListResult(<<>>, "UnknownObjectType", 0, NoNameErr)

\* Fs.encryptEntries returning at the first failure
encryptEntriesFirstOnly(entries) == encryptEntriesStopping(entries, 1, <<>>)

\* Fs.encryptEntries
encryptEntries(entries) ==
    encryptEntriesLoop(entries, 1, <<>>, 0, NoNameErr)

\* Fs.List: the underlying listing of the encrypted directory name, its
\* entries filtered
fsList(entries, listErr) ==
    IF listErr THEN ListResult(<<>>, "ListFailed", 0, NoNameErr)
    ELSE encryptEntries(entries)

\* Fs.ListR: the callback the underlying ListR calls for each tranche; the
\* listing stops at the first tranche for which it returns an error
RECURSIVE fsListRFrom(_, _, _, _)
fsListRCalled(tranches, i, delivered, callbackErr, r) ==
    IF r.err # "" THEN [r EXCEPT !.entries = delivered]
    ELSE IF callbackErr
    THEN ListResult(delivered \o r.entries, "CallbackFailed", 0, NoNameErr)
    ELSE fsListRFrom(tranches, i + 1, delivered \o r.entries, callbackErr)

fsListRFrom(tranches, i, delivered, callbackErr) ==
    IF i > Len(tranches) THEN ListResult(delivered, "", 0, NoNameErr)
    ELSE fsListRCalled(tranches, i, delivered, callbackErr,
                       encryptEntries(tranches[i]))

\* Fs.ListR
fsListR(tranches, callbackErr) == fsListRFrom(tranches, 1, <<>>, callbackErr)

(***************************************************************************)
(* The state machine.                                                      *)
(***************************************************************************)
\* res: what the operation `op` called with `options` returned (out: the
\* bytes read, reqs: the requests made to the underlying object); for a
\* put, size is the size
\* announced to the underlying store and sent the number of bytes it was
\* given
Res(op, options, out, err, hash, size, reqs) ==
    [op |-> op, options |-> options, out |-> out, err |-> err,
     hash |-> hash, size |-> size, reqs |-> reqs, sent |-> 0]

NoRes == Res("none", <<>>, <<>>, "", NoHash, 0, <<>>)

\* obj: ct is what the underlying store holds; p, nonce, cek, version and
\* master are those of the put that made it, mod what has happened to the
\* stored bytes since they were sent
NoObj ==
    [exists |-> FALSE, ct |-> <<>>, p |-> 0, nonce |-> ZeroNonce,
     cek |-> NoKey, version |-> "", master |-> NoKey, mod |-> "none"]

NewWrapper == [cipherVersion |-> ""]

\* the plaintext stored as it is (no_data_encryption)
PlainItem(p) == Item("plain", p, "", <<>>, NoKey, DataPt(0, p), 0, TRUE)

Booleans == {TRUE, FALSE}

PlainSizes == {k * blockDataSize + d : k \in 0..MaxBlocks, d \in {0, 1}}

SeekOffsets(p) ==
    {0, 1, blockDataSize, blockDataSize + 1, p, p + 1}

\* the option lists Object.Open is called with
OpenOptionLists(p) ==
    {(IF o = 0 THEN <<>> ELSE <<SeekOption(o)>>)
     \o (IF c = NoKey THEN <<>> ELSE <<CekOption(c)>>) :
        o \in SeekOffsets(p), c \in {NoKey} \cup RandomCeks}
    \cup {<<OtherOption>>, <<OtherOption, SeekOption(1)>>,
          <<RangeOption(1)>>, <<SeekOption(1), RangeOption(blockDataSize)>>,
          <<RangeOption(blockDataSize + 1), OtherOption, CekOption("cekA")>>}

\* Options (the fields the model reads)
Options(version, nde, pbb, exact, mode, dirEnc, enc, sfx, strict) ==
    [CipherVersion |-> version, NoDataEncryption |-> nde,
     PassBadBlocks |-> pbb, ExactSize |-> exact,
     FilenameEncryption |-> mode, DirectoryNameEncryption |-> dirEnc,
     FilenameEncoding |-> enc, Suffix |-> sfx, StrictNames |-> strict]

\* the configurations the remote is first opened with: the defaults of
\* either cipher version, or one of the data flags set
Configs ==
    {Options(v, f = "no_data_encryption", f = "pass_bad_blocks",
             f = "exact_size", "standard", TRUE, "base32", SuffixBin, FALSE) :
        v \in {CipherVersionV1, CipherVersionV2},
        f \in {"", "no_data_encryption", "pass_bad_blocks", "exact_size"}}

\* what an upload meets in the underlying store: the put fails or not, the
\* hash type the store supports (f.Fs.Hashes().GetOne()), the hash it
\* reports for the uploaded object ("" none, HashOfSent, or another), whether
\* reading that hash fails, and whether Remove fails
PutInput(putErr, ht, dstHash, dstErr, removeErr) ==
    [putErr |-> putErr, ht |-> ht, dstHash |-> dstHash, dstErr |-> dstErr,
     removeErr |-> removeErr]

\* hasher.Sums()[ht]: the hash of the encrypted bytes sent
HashOfSent == "H"

PutInputs ==
    {PutInput(TRUE, "md5", HashOfSent, FALSE, FALSE),
     PutInput(FALSE, "none", HashOfSent, FALSE, FALSE),
     PutInput(FALSE, "md5", HashOfSent, FALSE, FALSE),
     PutInput(FALSE, "md5", "", FALSE, FALSE),
     PutInput(FALSE, "md5", "", TRUE, FALSE),
     PutInput(FALSE, "md5", "X", FALSE, FALSE),
     PutInput(FALSE, "md5", "X", FALSE, TRUE)}

\* what Fs.put did: the error it returned, the calls it made on the
\* underlying store and object, whether it returned the wrapped object
PutOutcome(err, calls, returned) ==
    [err |-> err, calls |-> calls, returned |-> returned]

\* Fs.put with the object left in place when the hashes differ
putChecksKeeping(h) ==
    IF h.putErr THEN PutOutcome("PutFailed", <<"put">>, FALSE)
    ELSE IF opt.NoDataEncryption \/ h.ht = "none"
    THEN PutOutcome("", <<"put">>, TRUE)
    ELSE IF h.dstErr
    THEN PutOutcome("ReadDestinationHash", <<"put", "Hash">>, FALSE)
    ELSE IF HashOfSent # "" /\ h.dstHash # "" /\ HashOfSent # h.dstHash
    THEN PutOutcome("CorruptedOnTransfer", <<"put", "Hash">>, FALSE)
    ELSE PutOutcome("", <<"put", "Hash">>, TRUE)

\* Fs.put: the transfer and the check of the hashes of the encrypted data
putChecks(h) ==
    IF h.putErr THEN PutOutcome("PutFailed", <<"put">>, FALSE)
    ELSE IF opt.NoDataEncryption \/ h.ht = "none"
    THEN PutOutcome("", <<"put">>, TRUE)
    ELSE IF h.dstErr
    THEN PutOutcome("ReadDestinationHash", <<"put", "Hash">>, FALSE)
    ELSE IF HashOfSent # "" /\ h.dstHash # "" /\ HashOfSent # h.dstHash
    THEN PutOutcome("CorruptedOnTransfer", <<"put", "Hash", "Remove">>,
                    FALSE)
    ELSE PutOutcome("", <<"put", "Hash">>, TRUE)

Init ==
    /\ opt \in Configs
    /\ dataKey = "master1"
    /\ obj = NoObj
    /\ wobj = NewWrapper
    /\ res = NoRes

\* the object an upload of p bytes leaves in the underlying store
Stored(ct, p, n, cek) ==
    [exists |-> TRUE, ct |-> ct, p |-> p,
     nonce |-> IF opt.NoDataEncryption THEN ZeroNonce ELSE n,
     cek |-> IF opt.NoDataEncryption \/ opt.CipherVersion = CipherVersionV1
             THEN NoKey ELSE cek,
     version |-> IF opt.NoDataEncryption THEN "" ELSE opt.CipherVersion,
     master |-> dataKey,
     mod |-> "none"]

\* Fs.put through the underlying Put, PutStream or Update: `before` is the
\* stored object the upload replaces (none for Put and PutStream)
Uploaded(op, before, stored, announced, h, did) ==
    /\ wobj' = NewWrapper
    /\ obj' = IF h.putErr THEN before
              ELSE IF did.calls[Len(did.calls)] = "Remove"
              THEN IF h.removeErr THEN [stored EXCEPT !.mod = "corrupt"]
                   ELSE NoObj
              ELSE stored
    /\ res' = [Res(op, <<h>>,
                   IF did.returned THEN <<"Object">> ELSE <<>>,
                   did.err, NoHash, announced, did.calls)
                  EXCEPT !.sent = IF h.putErr THEN 0 ELSE SizeOf(stored.ct)]
    /\ UNCHANGED <<opt, dataKey>>

\* the bytes Fs.put hands to the underlying store
putBytes(p, n, cek) ==
    IF opt.NoDataEncryption THEN <<PlainItem(p)>>
    ELSE encryptData(p, n, cek, opt.CipherVersion, dataKey)

\* Fs.Put, and Fs.PutStream (size not known): the upload and the check of
\* the hashes of the encrypted data
Put(p, n, cek, known, h) ==
    /\ ~obj.exists
    /\ Uploaded("put", NoObj, Stored(putBytes(p, n, cek), p, n, cek),
                ObjectInfoSize(IF known THEN p ELSE -1), h, putChecks(h))

\* Object.Update: Fs.put through the Update of the underlying object
Update(p, n, cek, known, h) ==
    /\ obj.exists /\ obj.mod = "none"
    /\ Uploaded("update", obj, Stored(putBytes(p, n, cek), p, n, cek),
                ObjectInfoSize(IF known THEN p ELSE -1), h, putChecks(h))

\* Fs.PutUnchecked: `supported` is whether the underlying store has
\* PutUnchecked
PutUnchecked(p, n, cek, known, supported, putErr) ==
    /\ ~obj.exists
    /\ wobj' = NewWrapper
    /\ obj' = IF ~supported \/ putErr THEN NoObj
              ELSE [exists |-> TRUE,
                    ct |-> encryptData(p, n, cek, opt.CipherVersion, dataKey),
                    p |-> p, nonce |-> n,
                    cek |-> IF opt.CipherVersion = CipherVersionV1
                            THEN NoKey ELSE cek,
                    version |-> opt.CipherVersion, master |-> dataKey,
                    mod |-> "none"]
    /\ res' = IF ~supported
              THEN Res("putUnchecked", <<>>, <<>>, "CantPutUnchecked",
                       NoHash, 0, <<>>)
              ELSE [Res("putUnchecked", <<>>,
                        IF putErr THEN <<>> ELSE <<"Object">>,
                        IF putErr THEN "PutFailed" ELSE "", NoHash,
                        ObjectInfoSize(IF known THEN p ELSE -1),
                        <<"PutUnchecked">>)
                       EXCEPT !.sent =
                          IF putErr THEN 0
                          ELSE SizeOf(encryptData(p, n, cek,
                                                  opt.CipherVersion,
                                                  dataKey))]
    /\ UNCHANGED <<opt, dataKey>>

\* Fs.NewObject: a fresh wrapper of the stored object
NewObject ==
    /\ obj.exists
    /\ wobj' = NewWrapper
    /\ res' = NoRes
    /\ UNCHANGED <<opt, dataKey, obj>>

\* Object.Remove (passed to the underlying object)
Remove ==
    /\ obj.exists
    /\ obj' = NoObj
    /\ wobj' = NewWrapper
    /\ res' = NoRes
    /\ UNCHANGED <<opt, dataKey>>

\* the remote that holds the object opened again under another cipher
\* version or master key
Remount(version, key) ==
    /\ obj.exists
    /\ <<version, key>> # <<opt.CipherVersion, dataKey>>
    /\ opt' = [opt EXCEPT !.CipherVersion = version]
    /\ dataKey' = key
    /\ wobj' = NewWrapper
    /\ res' = NoRes
    /\ UNCHANGED obj

\* what an operation that read the header leaves in res and in the wrapper
Returned(r, result) ==
    /\ res' = result
    /\ wobj' = IF r.cipherVersion # ""
               THEN [cipherVersion |-> r.cipherVersion] ELSE wobj

Opened(options, r) ==
    Returned(r, Res("open", options, r.out, r.err, NoHash, 0, r.reqs))

\* Object.Open with the given options, read to the end
OpenRead(options) ==
    /\ obj.exists
    /\ Opened(options, ObjectOpen(obj.ct, options))
    /\ UNCHANGED <<opt, dataKey, obj>>

\* the hash of a stream is modelled by the stream (no two streams share a
\* hash); <<>> is the empty string, no hash
Computed(hash, err, cipherVersion) ==
    [hash |-> hash, err |-> err, cipherVersion |-> cipherVersion]

\* Fs.computeHashWithNonce re-encrypting under a nonce of its own
computeHashFreshNonce(nonce, cek, srcSize, srcErr) ==
    IF srcErr THEN Computed(<<>>, "FailedToOpenSrc", "")
    ELSE Computed(encryptData(srcSize, ZeroNonce, cek, opt.CipherVersion,
                              dataKey), "", "")

\* Fs.computeHashWithNonce: the hash of src's content (srcSize bytes)
\* encrypted with the nonce and the CEK
computeHashWithNonce(nonce, cek, srcSize, srcErr) ==
    IF srcErr THEN Computed(<<>>, "FailedToOpenSrc", "")
    ELSE Computed(encryptData(srcSize, nonce, cek, opt.CipherVersion,
                              dataKey), "", "")

\* Fs.ComputeHash given the decrypter of the stored object
ComputeHashWith(d, srcSize, srcErr) ==
    IF d.err # "" THEN Computed(<<>>, d.err, d.cipherVersion)
    ELSE [computeHashWithNonce(d.nonce, d.cek, srcSize, srcErr)
             EXCEPT !.cipherVersion = d.cipherVersion]

\* Fs.ComputeHash
fsComputeHash(ct, srcSize, srcErr) ==
    IF opt.NoDataEncryption
    THEN Computed(<<PlainItem(srcSize)>>, "", "")
    ELSE ComputeHashWith(getDecrypter(ct, NoKey), srcSize, srcErr)

\* the source of a hash computation: its size and whether opening it fails
Source(size, openErr, local) ==
    [size |-> size, openErr |-> openErr, local |-> local]

ComputedHash(op, src, r) ==
    Returned(r, Res(op, <<src>>, r.hash, r.err, NoHash, 0, <<>>))

\* Fs.ComputeHash(o, src) on the wrapper of the stored object
ComputeHash(srcSize, srcErr) ==
    /\ obj.exists
    /\ ComputedHash("computeHash", Source(srcSize, srcErr, TRUE),
                    fsComputeHash(obj.ct, srcSize, srcErr))
    /\ UNCHANGED <<opt, dataKey, obj>>

\* ObjectInfo.Hash of the ObjectInfo the last upload gave the underlying
\* store: src is a local object, or it is not
ObjectInfoHash(local) ==
    /\ res.op \in {"put", "update", "putUnchecked"} /\ res.err = ""
    /\ obj.exists
    /\ ComputedHash("infoHash", Source(obj.p, FALSE, local),
                    IF local
                    THEN computeHashWithNonce(obj.nonce, obj.cek, obj.p,
                                              FALSE)
                    ELSE Computed(<<>>, "", ""))
    /\ UNCHANGED <<opt, dataKey, obj>>

\* the names the show-cek command is given: that of the stored object and
\* one the store holds nothing under
StoredName == "file"
AbsentName == "absent"
ShowCekArgs ==
    {<<a>> : a \in {StoredName, AbsentName}}
    \cup {<<StoredName, a>> : a \in {StoredName, AbsentName}}

\* f.Fs.NewObject of the underlying store on an encrypted name
UnderlyingNewObject(name) ==
    IF obj.exists /\ name = StoredName THEN [err |-> "", ct |-> obj.ct]
    ELSE [err |-> "ObjectNotFound", ct |-> <<>>]

ShowCekResult(out, err) == [out |-> out, err |-> err]

\* the loop of the show-cek command over its arguments: an error ends it with
\* no output, a decrypter that was opened yields the hex of its cek
RECURSIVE showCek(_, _)
showCek(arg, out) ==
    IF arg = <<>> THEN ShowCekResult(out, "")
    ELSE IF UnderlyingNewObject(Head(arg)).err # ""
    THEN ShowCekResult(<<>>, UnderlyingNewObject(Head(arg)).err)
    ELSE IF getDecrypter(UnderlyingNewObject(Head(arg)).ct, NoKey).err # ""
    THEN ShowCekResult(<<>>,
             getDecrypter(UnderlyingNewObject(Head(arg)).ct, NoKey).err)
    ELSE showCek(Tail(arg),
             Append(out,
                 getDecrypter(UnderlyingNewObject(Head(arg)).ct, NoKey).cek))

ShowedCek(arg, r) ==
    res' = Res("showCek", arg, r.out, r.err, NoHash, 0, <<>>)

\* Fs.Command "show-cek"
ShowCek(arg) ==
    /\ ShowedCek(arg, showCek(arg, <<>>))
    /\ UNCHANGED <<opt, dataKey, obj, wobj>>

\* the (underlyingOffset, underlyingLimit) pairs a decrypter may call the
\* open callback of Object.Open with
UnderlyingOffsets == {0, fileHeaderSizeV2, fileHeaderSize + blockSize}
UnderlyingLimits == {-1, 0, fileHeaderSizeV2, 2 * blockSize}

Reopened(options, underlyingOffset, underlyingLimit) ==
    res' = Res("reopen", options, <<underlyingOffset, underlyingLimit>>, "",
               NoHash, 0,
               <<OpenRequest(SizeOf(obj.ct), underlyingOffset,
                             underlyingLimit, OpenOptions(options))>>)

\* the open callback of Object.Open called by the decrypter of a stream
\* that was opened with the given options
Reopen(options, underlyingOffset, underlyingLimit) ==
    /\ obj.exists /\ ~opt.NoDataEncryption
    /\ Reopened(options, underlyingOffset, underlyingLimit)
    /\ UNCHANGED <<opt, dataKey, obj, wobj>>

\* the hash types Object.Hash is asked for
HashTypes == {"md5", "sha1"}

\* Fs.Hashes: the hash types the remote advertises
fsHashes ==
    IF opt.CipherVersion = CipherVersionV2 THEN {"md5"} ELSE {}

\* a CEK argument of the decrypt command: whether it is hex, the count of
\* bytes it encodes, and the key its first fileCekSize bytes are
CekArg(hex, len, key) == [hex |-> hex, len |-> len, key |-> key]
GoodCek == CekArg(TRUE, fileCekSize, "cekA")
CekArgs ==
    {GoodCek, CekArg(FALSE, 0, NoKey), CekArg(TRUE, fileCekSize - 1, NoKey),
     CekArg(TRUE, fileCekSize + 1, "cekA")}

LocalPaths == {"local1", "local2"}

\* the argument lists of the decrypt command: one triple, two triples of
\* which the first is good, and lists that are no sequence of triples
DecryptArgLists ==
    {<<StoredName, c, "local1">> : c \in CekArgs}
    \cup {<<StoredName, GoodCek, "local1", n, c, "local2">> :
             n \in {StoredName, AbsentName}, c \in CekArgs}
    \cup {<<StoredName, GoodCek>>,
          <<StoredName, GoodCek, "local1", StoredName>>}

\* what the decrypt command has done when it ends: the error it returns or
\* the panic it ends in, the objects it opened and the local files it wrote
DecryptResult(err, crashed, opened, written) ==
    [err |-> err, crashed |-> crashed, opened |-> opened,
     written |-> written]

\* Fs.decryptCmd on one triple: the object is looked up, opened under the
\* CekOption and its stream put to the local path
decryptCmd(encryptedFileName, cek, dest, done) ==
    IF UnderlyingNewObject(encryptedFileName).err # ""
    THEN [done EXCEPT !.err = UnderlyingNewObject(encryptedFileName).err]
    ELSE IF ObjectOpen(obj.ct, <<CekOption(cek)>>).err # "EOF"
    THEN [done EXCEPT !.err = "FailedCopying",
                      !.opened = Append(@, encryptedFileName)]
    ELSE [done EXCEPT !.opened = Append(@, encryptedFileName),
                      !.written = Append(@, dest)]

\* the loop of the decrypt command over its triples: hex.DecodeString, the
\* conversion ([fileCekSize]byte)(cekBytes) - which panics on a slice
\* shorter than the array and takes the first fileCekSize bytes of a longer
\* one - and decryptCmd
RECURSIVE decryptLoop(_, _)
decryptLoop(arg, done) ==
    IF arg = <<>> \/ done.err # "" THEN done
    ELSE IF ~arg[2].hex THEN [done EXCEPT !.err = "InvalidHex"]
    ELSE IF arg[2].len < fileCekSize THEN [done EXCEPT !.crashed = TRUE]
    ELSE decryptLoop(SubSeq(arg, 4, Len(arg)),
                     decryptCmd(arg[1], arg[2].key, arg[3], done))

commandDecrypt(arg) ==
    IF Len(arg) % 3 # 0
    THEN DecryptResult("NeedSequenceOf3", FALSE, <<>>, <<>>)
    ELSE decryptLoop(arg, DecryptResult("", FALSE, <<>>, <<>>))

DecryptedArgs(arg, r) ==
    res' = [op |-> "decryptArgs", options |-> arg, err |-> r.err,
            crashed |-> r.crashed, opened |-> r.opened,
            written |-> r.written]

\* Fs.Command "decrypt"
DecryptArgs(arg) ==
    /\ DecryptedArgs(arg, commandDecrypt(arg))
    /\ UNCHANGED <<opt, dataKey, obj, wobj>>

\* a read handle opened on the underlying object, and whether it has been
\* closed when the operation returns
Handle(what, closed) == [what |-> what, closed |-> closed]

\* the handle of getDecrypter: closed where newDecrypter fails (in.Close)
\* and where it succeeds (d.Close)
getDecrypterHandles == <<Handle("header", TRUE)>>

\* the handle of the footer read of Object.Hash: no path closes it
footerHandles == <<Handle("footer", FALSE)>>

\* the handles Object.Hash has opened when it returns
readHashHandles(ct, d) ==
    IF d.err # "" \/ d.cipherVersion = CipherVersionV1
    THEN getDecrypterHandles
    ELSE IF SizeOf(ct) < HashEncryptedSizeWithHeader
            \/ ItemAt(ct, SizeOf(ct) - HashEncryptedSizeWithHeader, 1).b
                 = HashHeaderNoHash
            \/ ~cipherExactSize
    THEN getDecrypterHandles \o footerHandles
    ELSE getDecrypterHandles \o footerHandles \o getDecrypterHandles

ObjectHashHandles(ct) ==
    IF opt.CipherVersion = CipherVersionV1 THEN <<>>
    ELSE readHashHandles(ct, getDecrypter(ct, NoKey))

\* res.options keeps the hash type asked for, res.reqs the handles opened
Hashed(ht, r, handles) ==
    Returned(r, Res("hash", <<ht>>, <<>>, r.err, r.hash, 0, handles))

\* Object.Hash(ctx, ht); ht is read nowhere in its body
Hash(ht) ==
    /\ obj.exists
    /\ Hashed(ht, ObjectHash(obj.ct), ObjectHashHandles(obj.ct))
    /\ UNCHANGED <<opt, dataKey, obj>>

\* decryptCmd once the object is open under the CekOption: the stream is
\* put to the destination with the size Object.Size gives
Decrypted(cek, r) ==
    /\ res' = Res("decrypt", <<CekOption(cek)>>, r.out, r.err, NoHash,
                  ObjectSize(obj.ct, r.cipherVersion).size, r.reqs)
    /\ wobj' = NewWrapper

\* the decrypt command on one (remote path, CEK, local path) triple
DecryptCmd(cek) ==
    /\ obj.exists
    /\ Decrypted(cek, ObjectOpen(obj.ct, <<CekOption(cek)>>))
    /\ UNCHANGED <<opt, dataKey, obj>>

\* res.options keeps the cipherVersion the wrapper held when Size was called
Sized(r) ==
    /\ res' = Res("size", <<wobj.cipherVersion>>, <<>>, "", NoHash, r.size,
                  r.reqs)
    /\ wobj' = [cipherVersion |-> r.cipherVersion]

\* Object.Size
Size ==
    /\ obj.exists
    /\ Sized(ObjectSize(obj.ct, wobj.cipherVersion))
    /\ UNCHANGED <<opt, dataKey, obj>>

(***************************************************************************)
(* The untrusted store: it may cut the stored bytes or flip one bit.       *)
(***************************************************************************)
\* the first `len` bytes of ct
RECURSIVE Prefix(_, _)
Prefix(ct, len) ==
    IF len <= 0 \/ ct = <<>> THEN <<>>
    ELSE IF Head(ct).len <= len
    THEN <<Head(ct)>> \o Prefix(Tail(ct), len - Head(ct).len)
    ELSE <<JunkItem(len)>>

CutPoints(ct) ==
    {x \in {StartOf(ct, i) + d : i \in 1..(Len(ct) + 1),
                                 d \in {-1, 0, 1,
                                        HashEncryptedSizeWithHeader}} :
        x >= 0 /\ x < SizeOf(ct)}

\* bit `bit` of byte b flipped
FlipByte(b, bit) ==
    LET w == 2 ^ bit
    IN  IF (b \div w) % 2 = 1 THEN b - w ELSE b + w

\* one bit of item i flipped: bit `bit` of its byte j
Flipped(it, j, bit) ==
    IF it.t = "nonce" THEN [it EXCEPT !.n[j] = FlipByte(it.n[j], bit)]
    ELSE IF it.t = "byte" THEN [it EXCEPT !.b = FlipByte(it.b, bit)]
    ELSE [it EXCEPT !.ok = FALSE]

Truncate(len) ==
    /\ obj.exists /\ obj.mod = "none" /\ obj.version # ""
    /\ len \in CutPoints(obj.ct)
    /\ obj' = [obj EXCEPT !.ct = Prefix(obj.ct, len), !.mod = "cut"]
    /\ wobj' = NewWrapper
    /\ res' = NoRes
    /\ UNCHANGED <<opt, dataKey>>

\* a bit outside the magic bytes
FlipBit(i, j, bit) ==
    /\ obj.exists /\ obj.mod = "none" /\ obj.version # ""
    /\ i \in 2..Len(obj.ct)
    /\ j \in {1, obj.ct[i].len}
    /\ obj' = [obj EXCEPT !.ct[i] = Flipped(obj.ct[i], j, bit),
                          !.mod = "flip"]
    /\ wobj' = NewWrapper
    /\ res' = NoRes
    /\ UNCHANGED <<opt, dataKey>>

Next ==
    \/ \E p \in PlainSizes, n \in RandomNonces(opt.CipherVersion),
          known \in Booleans, h \in PutInputs :
          Put(p, n, "cekA", known, h)
    \/ NewObject
    \/ Remove
    \/ \E v \in {CipherVersionV1, CipherVersionV2}, k \in MasterKeys :
          Remount(v, k)
    \/ \E options \in OpenOptionLists(obj.p) : OpenRead(options)
    \/ \E c \in RandomCeks : DecryptCmd(c)
    \/ \E ht \in HashTypes : Hash(ht)
    \/ Size
    \/ \E arg \in ShowCekArgs : ShowCek(arg)

Spec == Init /\ [][Next]_vars

\* the remote with the decrypt command, and with the open callback of
\* Object.Open called as a decrypter may call it
NextCmd ==
    \/ \E p \in PlainSizes, n \in RandomNonces(opt.CipherVersion) :
          Put(p, n, "cekA", TRUE,
              PutInput(FALSE, "md5", HashOfSent, FALSE, FALSE))
    \/ \E v \in {CipherVersionV1, CipherVersionV2}, k \in MasterKeys :
          Remount(v, k)
    \/ \E options \in {<<>>, <<OtherOption, SeekOption(1)>>,
                        <<RangeOption(blockDataSize + 1), OtherOption,
                          CekOption("cekA")>>} :
          OpenRead(options)
    \/ \E arg \in DecryptArgLists : DecryptArgs(arg)
    \/ \E options \in {<<>>, <<OtherOption, SeekOption(1)>>},
          uo \in UnderlyingOffsets, ul \in UnderlyingLimits :
          Reopen(options, uo, ul)

SpecCmd == Init /\ [][NextCmd]_vars

\* the same remote over a store that does not keep the bytes it was given
NextStore ==
    \/ \E p \in PlainSizes, n \in RandomNonces(opt.CipherVersion),
          known \in Booleans, h \in PutInputs :
          Put(p, n, "cekA", known, h)
    \/ \E len \in CutPoints(obj.ct) : Truncate(len)
    \/ \E i \in 1..Len(obj.ct), last \in Booleans, bit \in {0, 7} :
          FlipBit(i, IF last THEN obj.ct[i].len ELSE 1, bit)
    \/ \E o \in {0, 1, blockDataSize} :
          OpenRead(IF o = 0 THEN <<>> ELSE <<SeekOption(o)>>)
    \/ \E ht \in HashTypes : Hash(ht)

SpecStore == Init /\ [][NextStore]_vars

(***************************************************************************)
(* The claims.                                                             *)
(***************************************************************************)
\* what the last Open was asked for
Seeks == {i \in 1..Len(res.options) :
             res.options[i].kind \in {"seek", "range"}}
AskedOffset ==
    IF Seeks = {} THEN 0
    ELSE res.options[CHOOSE i \in Seeks : \A j \in Seeks : j <= i].offset
AskedCek == LastOf(res.options, "cek", CekOption(NoKey)).cek

\* the store holds an encrypted object as it was sent
Intact == obj.exists /\ obj.mod = "none" /\ obj.version # ""

\* the remote decrypts, under the master key the object was written with
ReaderKeyed == ~opt.NoDataEncryption /\ dataKey = obj.master

\* the ciphertext the put of obj emitted, and its data blocks
Original ==
    encryptData(obj.p, obj.nonce, obj.cek, obj.version, obj.master)
NBlocks == CeilDiv(obj.p, blockDataSize)
BlockNonce(K) ==
    obj.ct[Len(encryptHeader(obj.nonce, obj.cek, obj.version, obj.master))
           + 1 + K].n

\* C1: Data round-trip.  Reading the whole of an object as it was stored,
\* under the master key it was written with, returns exactly its plaintext
\* and then end-of-stream, for either cipher version and every length.
C1_DataRoundTrip ==
    (res.op = "open" /\ AskedOffset = 0 /\ AskedCek = NoKey
        /\ Intact /\ ReaderKeyed)
    => (res.out = Suffix(0, obj.p) /\ res.err = "EOF")

C1_Witness ==
    /\ res.op = "open" /\ AskedOffset = 0 /\ AskedCek = NoKey
    /\ Intact /\ ReaderKeyed
    /\ obj.version = CipherVersionV2 /\ obj.p = blockDataSize + 1
    /\ res.out = <<Extent("B", 0, blockDataSize + 1)>> /\ res.err = "EOF"

\* C4: Seek equivalence.  Opening an object as it was stored at plaintext
\* offset o <= |B| reopens the underlying object at
\* headerSize + (o div 65536) * 65552 and yields exactly B[o..] and then
\* end-of-stream; an offset beyond |B| fails with OutOfRange.
C4_SeekEquivalence ==
    (res.op = "open" /\ AskedCek = NoKey /\ Intact /\ ReaderKeyed)
    => IF AskedOffset <= obj.p
       THEN /\ res.out = Suffix(AskedOffset, obj.p)
            /\ res.err = "EOF"
            /\ AskedOffset > 0 =>
                 /\ Len(res.reqs) = 2
                 /\ res.reqs[2].range
                 /\ res.reqs[2].start
                      = headerSizeOf(obj.version)
                        + (AskedOffset \div blockDataSize) * blockSize
       ELSE res.err = "OutOfRange"

C4_Witness ==
    /\ res.op = "open" /\ AskedCek = NoKey /\ Intact /\ ReaderKeyed
    /\ obj.version = CipherVersionV2 /\ obj.p = 2 * blockDataSize + 1
    /\ AskedOffset = blockDataSize + 1
    /\ res.out = <<Extent("B", blockDataSize + 1, 2 * blockDataSize + 1)>>
    /\ res.reqs[2].start = fileHeaderSizeV2 + blockSize

\* C5: Size law.  The size announced for a plaintext of p bytes decrypts
\* back to p without error, and Object.Size of the stored object is p, for
\* either cipher version.
C5_SizeLaw ==
    /\ (res.op = "put" /\ res.size >= 0 /\ obj.exists /\ obj.version # "")
       => DecryptedSize(res.size, obj.version) = [size |-> obj.p, err |-> ""]
    /\ (res.op = "size" /\ Intact /\ ReaderKeyed
           /\ opt.CipherVersion = obj.version)
       => res.size = obj.p

C5_Witness ==
    /\ res.op = "size" /\ Intact /\ ReaderKeyed
    /\ opt.CipherVersion = obj.version
    /\ obj.p = blockDataSize + 1 /\ res.size = blockDataSize + 1

C7_FooterNonceAgreement ==
    (res.op = "hash" /\ Intact /\ ReaderKeyed
        /\ obj.version = CipherVersionV2
        /\ opt.CipherVersion = CipherVersionV2)
    => /\ res.err = ""
       /\ res.hash = [kind |-> "md5", of |-> obj.p]
       /\ HashNonce(obj.nonce, obj.p) = obj.ct[Len(obj.ct)].n

C9_CekOverride ==
    (res.op \in {"open", "decrypt"} /\ Intact
        /\ obj.version = CipherVersionV2 /\ ~opt.NoDataEncryption
        /\ AskedCek = obj.cek /\ AskedOffset <= obj.p)
    => (res.err = "EOF" /\ res.out = Suffix(AskedOffset, obj.p))

C9_Witness ==
    /\ res.op = "decrypt" /\ Intact /\ obj.version = CipherVersionV2
    /\ ~opt.NoDataEncryption /\ AskedCek = obj.cek
    /\ dataKey # obj.master
    /\ obj.p = blockDataSize + 1
    /\ res.out = <<Extent("B", 0, blockDataSize + 1)>> /\ res.err = "EOF"

\* the stored bytes are a proper prefix that has lost some of the final
\* block, or is no longer than the header
OmitsFinalBlock ==
    /\ obj.exists /\ obj.mod = "cut"
    /\ \/ SizeOf(obj.ct) < headerSizeOf(obj.version)
                             + obj.p + blockHeaderSize * NBlocks
       \/ SizeOf(obj.ct) <= headerSizeOf(obj.version)

\* the bytes a cut V2 object keeps after the header and before its last
\* HashEncryptedSizeWithHeader bytes
CutData == SizeOf(obj.ct) - fileHeaderSizeV2 - HashEncryptedSizeWithHeader

FlippedAt == CHOOSE i \in 1..Len(obj.ct) : obj.ct[i] # Original[i]

\* C3 as claimed: after a single bit flip outside the magic, reading a V2
\* object from the start fails with BadBlock or CEKUnwrapFailed.
C3_TamperAsClaimed ==
    (res.op = "open" /\ AskedOffset = 0 /\ obj.exists /\ obj.mod = "flip"
        /\ obj.version = CipherVersionV2 /\ ReaderKeyed
        /\ ~opt.PassBadBlocks)
    => res.err \in {"BadBlock", "CEKUnwrapFailed"}

\* C3: Tamper detection.  With pass_bad_blocks off, after a single bit flip
\* in the start nonce, the wrapped CEK or a data block of a V2 object, a
\* read from the start fails with BadBlock or CEKUnwrapFailed; after a flip
\* in the hash footer (header byte or sealed hash) the read completes and
\* returns the original plaintext; no read, from any offset, delivers
\* bytes that differ from the original's at that offset.
C3_Tamper ==
    (res.op = "open" /\ obj.exists /\ obj.mod = "flip"
        /\ obj.version = CipherVersionV2 /\ ReaderKeyed
        /\ ~opt.PassBadBlocks)
    => /\ (AskedOffset = 0 /\ FlippedAt < Len(obj.ct) - 1)
          => res.err \in {"BadBlock", "CEKUnwrapFailed"}
       /\ (AskedOffset = 0 /\ FlippedAt >= Len(obj.ct) - 1)
          => (res.err = "EOF" /\ res.out = Suffix(0, obj.p))
       /\ res.err = "EOF" => res.out = Suffix(AskedOffset, obj.p)
       /\ res.out # <<>> =>
            /\ Len(res.out) = 1 /\ res.out[1].src = "B"
            /\ res.out[1].lo = AskedOffset /\ res.out[1].hi <= obj.p

C3_Witness ==
    /\ res.op = "open" /\ AskedOffset = 0 /\ obj.exists /\ obj.mod = "flip"
    /\ obj.version = CipherVersionV2 /\ ReaderKeyed /\ ~opt.PassBadBlocks
    /\ obj.p = blockDataSize + 1
    /\ FlippedAt = 5
    /\ res.err = "BadBlock"

(***************************************************************************)
(* Names: the encode and decode commands, Mkdir and the listing of a       *)
(* directory entry.                                                        *)
(***************************************************************************)
Segments == {Text(<<>>), Text(<<1>>), Text(<<NameLetters, Dot, 2>>)}

RECURSIVE PathsOf(_)
PathsOf(n) ==
    IF n = 0 THEN {<<>>}
    ELSE {Append(q, g) : q \in PathsOf(n - 1), g \in Segments}

\* the paths of one to MaxSegments segments
NamePaths == UNION {PathsOf(n) : n \in 1..MaxSegments}

\* the argument lists of a command: one name, or two short ones
ArgLists ==
    {<<a>> : a \in NamePaths}
    \cup {<<a, b>> : a \in PathsOf(1), b \in PathsOf(1)}

NameConfigs ==
    {Options(CipherVersionV1, FALSE, FALSE, FALSE, m[1], d, m[2], x, st) :
        m \in {<<"standard", "base32">>, <<"standard", "base64">>,
               <<"standard", "base32768">>, <<"obfuscate", "base32">>,
               <<"off", "base32">>},
        d \in Booleans, x \in {SuffixBin, <<>>}, st \in Booleans}

InitName ==
    /\ opt \in NameConfigs
    /\ dataKey \in MasterKeys
    /\ obj = NoObj
    /\ wobj = NewWrapper
    /\ res = NoRes

Commanded(op, arg, r) ==
    res' = Res(op, arg, r.out, r.err, NoHash, 0, <<>>)

\* Fs.Command "encode"
EncodeCmd(arg) ==
    /\ Commanded("encode", arg, commandEncode(arg))
    /\ UNCHANGED <<opt, dataKey, obj, wobj>>

\* Fs.Command "decode"
DecodeCmd(arg) ==
    /\ Commanded("decode", arg, commandDecode(arg))
    /\ UNCHANGED <<opt, dataKey, obj, wobj>>

\* Fs.Mkdir: the directory made under its encrypted name
Mkdir(dir) ==
    /\ res' = Res("mkdir", <<dir>>, <<EncryptDirName(dir)>>, "", NoHash, 0,
                  <<>>)
    /\ UNCHANGED <<opt, dataKey, obj, wobj>>

\* Fs.addDir: a directory of a listing, added under its decrypted name, or
\* skipped when the name does not decrypt and strict_names is off
AddedDir(remote, r) ==
    res' = IF r.err = ""
           THEN Res("addDir", <<remote>>, <<r.name>>, "", NoHash, 0, <<>>)
           ELSE IF opt.StrictNames
           THEN Res("addDir", <<remote>>, <<>>, "UndecryptableDirName",
                    NoHash, 0, <<>>)
           ELSE Res("addDir", <<remote>>, <<>>, "", NoHash, 0, <<>>)

addDir(remote) ==
    /\ AddedDir(remote, DecryptDirName(remote))
    /\ UNCHANGED <<opt, dataKey, obj, wobj>>

NextName ==
    \/ \E arg \in ArgLists : EncodeCmd(arg)
    \/ \E arg \in ArgLists : DecodeCmd(commandEncode(arg).out)
    \/ \E arg \in ArgLists : DecodeCmd(arg)
    \/ \E dir \in NamePaths : Mkdir(dir)
    \/ \E dir \in NamePaths : addDir(EncryptDirName(dir))
    \/ \E dir \in NamePaths : addDir(dir)

SpecName == InitName /\ [][NextName]_vars

\* C10: Name round-trip.  For every path, name mode and encoding, the
\* decode command on what the encode command gave returns the original
\* names without error (decryptFileName(encryptFileName(p)) = p), and a
\* directory listed under the name encryptDirName gave is entered under the
\* original name (decryptDirName(encryptDirName(p)) = p).
C10_NameRoundTrip ==
    /\ res.op = "decode" =>
          \A arg \in ArgLists :
             commandEncode(arg).out = res.options
             => (res.err = "" /\ res.out = arg)
    /\ res.op = "addDir" =>
          \A dir \in NamePaths :
             EncryptDirName(dir) = res.options[1]
             => (res.err = "" /\ res.out = <<dir>>)

C10_Witness ==
    /\ res.op = "decode" /\ res.err = ""
    /\ opt.FilenameEncryption = "standard" /\ opt.Suffix = SuffixBin
    /\ opt.DirectoryNameEncryption
    /\ res.out = <<<<Text(<<1>>), Text(<<NameLetters, Dot, 2>>)>>>>
    /\ res.options[1][1].t = "eme"
    /\ res.options[1][2].t = "eme" /\ res.options[1][2].tail = SuffixBin
    /\ commandEncode(res.out).out = res.options

(***************************************************************************)
(* Uploads: Put, PutStream and Update over a store that reports hashes.    *)
(***************************************************************************)
NextPut ==
    \/ \E p \in PlainSizes, n \in RandomNonces(opt.CipherVersion),
          known \in Booleans, h \in PutInputs :
          Put(p, n, "cekA", known, h)
    \/ \E p \in {1, blockDataSize}, n \in RandomNonces(opt.CipherVersion),
          known \in Booleans, h \in PutInputs :
          Update(p, n, "cekB", known, h)
    \/ \E p \in {0, 1, blockDataSize}, n \in RandomNonces(opt.CipherVersion),
          known \in Booleans, supported \in Booleans, putErr \in Booleans :
          PutUnchecked(p, n, "cekA", known, supported, putErr)
    \/ \E o \in {0, 1} : OpenRead(IF o = 0 THEN <<>> ELSE <<SeekOption(o)>>)
    \/ Remove
    \/ \E v \in {CipherVersionV1, CipherVersionV2}, k \in MasterKeys :
          Remount(v, k)
    \/ \E srcSize \in {obj.p, obj.p + 1}, srcErr \in Booleans :
          ComputeHash(srcSize, srcErr)
    \/ \E local \in Booleans : ObjectInfoHash(local)

SpecPut == Init /\ [][NextPut]_vars

\* what the upload met in the store
PutMet == res.options[1]

\* the hash of the encrypted bytes computed during the upload ("": none
\* was computed, the store supporting no hash type)
SrcHash == IF PutMet.ht = "none" THEN "" ELSE HashOfSent

HashesDiffer ==
    SrcHash # "" /\ PutMet.dstHash # "" /\ SrcHash # PutMet.dstHash

\* C11: Corrupted-upload handling.  With data encryption on, after an
\* upload (Put, PutStream, Update) that the store accepted and whose hash
\* it reported: if the hash computed during the upload and the reported one
\* are both non-empty and differ, Remove is called on the uploaded object
\* and then an error and no object are returned, also when Remove fails;
\* if either is empty or they are equal the wrapped object is returned and
\* nothing is removed.
C11_CorruptedUpload ==
    (res.op \in {"put", "update"} /\ ~opt.NoDataEncryption
        /\ ~PutMet.putErr /\ ~PutMet.dstErr)
    => /\ HashesDiffer
          => /\ res.reqs = <<"put", "Hash", "Remove">>
             /\ res.err = "CorruptedOnTransfer" /\ res.out = <<>>
             /\ ~PutMet.removeErr => ~obj.exists
       /\ ~HashesDiffer
          => /\ res.err = "" /\ res.out = <<"Object">>
             /\ \A i \in 1..Len(res.reqs) : res.reqs[i] # "Remove"
             /\ obj.exists /\ obj.mod = "none"

C11_Witness ==
    /\ res.op = "update" /\ ~opt.NoDataEncryption
    /\ ~PutMet.putErr /\ ~PutMet.dstErr
    /\ HashesDiffer /\ PutMet.removeErr
    /\ res.reqs = <<"put", "Hash", "Remove">>
    /\ res.err = "CorruptedOnTransfer" /\ res.out = <<>>
    /\ obj.exists /\ obj.mod = "corrupt"

(***************************************************************************)
(* Listings: List and ListR over an underlying directory.                  *)
(***************************************************************************)
ListConfigs ==
    {Options(CipherVersionV1, FALSE, FALSE, FALSE, m, d, "base32", SuffixBin,
             st) :
        m \in {"standard", "obfuscate", "off"}, d \in Booleans,
        st \in Booleans}

InitList ==
    /\ opt \in ListConfigs
    /\ dataKey = "master1"
    /\ obj = NoObj
    /\ wobj = NewWrapper
    /\ res = NoRes

\* a key that is not the remote's
OtherKey == CHOOSE k \in MasterKeys : k # dataKey

\* the entries of the underlying listings: a file and a directory stored
\* through this remote, a file and a directory stored by someone else, and
\* an entry that is neither an object nor a directory
ListEntries ==
    {Entry("obj", EncryptFileName(<<Text(<<NameLetters, Dot, 2>>)>>)),
     Entry("obj", <<Eme(OtherKey, opt.FilenameEncoding, <<1>>)>>),
     Entry("dir", EncryptDirName(<<Text(<<1>>)>>)),
     Entry("dir", <<Eme(OtherKey, opt.FilenameEncoding, <<1>>)>>),
     Entry("other", <<>>)}

RECURSIVE ListsOf(_)
ListsOf(n) ==
    IF n = 0 THEN {<<>>}
    ELSE {Append(l, e) : l \in ListsOf(n - 1), e \in ListEntries}

EntryLists == UNION {ListsOf(n) : n \in 0..MaxEntries}

\* a listing delivered whole, or in two tranches
Tranchings(l) ==
    {<<l>>} \cup {<<SubSeq(l, 1, k), SubSeq(l, k + 1, Len(l))>> :
                    k \in 1..(Len(l) - 1)}

ListInput(tranches, listErr, callbackErr) ==
    [tranches |-> tranches, listErr |-> listErr, callbackErr |-> callbackErr]

Listed(op, in, r) ==
    res' = Res(op, <<in>>, r.entries, r.err, NoHash, r.errors,
               <<r.firsterr>>)

\* Fs.List
List(entries, listErr) ==
    /\ Listed("List", ListInput(<<entries>>, listErr, FALSE),
              fsList(entries, listErr))
    /\ UNCHANGED <<opt, dataKey, obj, wobj>>

\* Fs.ListR
ListR(tranches, callbackErr) ==
    /\ Listed("ListR", ListInput(tranches, FALSE, callbackErr),
              fsListR(tranches, callbackErr))
    /\ UNCHANGED <<opt, dataKey, obj, wobj>>

NextList ==
    \/ \E l \in EntryLists : List(l, FALSE)
    \/ \E l \in ListsOf(1) : List(l, TRUE)
    \/ \E l \in EntryLists : \E tranches \in Tranchings(l) :
          ListR(tranches, FALSE)
    \/ \E l \in ListsOf(2) : \E tranches \in Tranchings(l) :
          ListR(tranches, TRUE)

SpecList == InitList /\ [][NextList]_vars

\* what the last listing was given
ListGiven == res.options[1]

RECURSIVE Flatten(_)
Flatten(tranches) ==
    IF tranches = <<>> THEN <<>>
    ELSE Head(tranches) \o Flatten(Tail(tranches))

\* the name of the underlying entry decrypts
Decrypts(e) ==
    IF e.kind = "obj" THEN DecryptFileName(e.remote).err = ""
    ELSE DecryptDirName(e.remote).err = ""

Undecryptable(e) == ~Decrypts(e)

\* the entry of the wrapper's listing for an underlying entry
WrappedOf(e) ==
    Wrapped(e, IF e.kind = "obj" THEN DecryptFileName(e.remote).name
               ELSE DecryptDirName(e.remote).name)

WrappedAll(entries) == [i \in 1..Len(entries) |-> WrappedOf(entries[i])]

\* the underlying listing answered, its entries are objects and
\* directories, and the callback took what it was given
ListingServed ==
    /\ res.op \in {"List", "ListR"}
    /\ ~ListGiven.listErr /\ ~ListGiven.callbackErr
    /\ \A i \in 1..Len(Flatten(ListGiven.tranches)) :
          Flatten(ListGiven.tranches)[i].kind \in {"obj", "dir"}

\* C12: Non-strict listing.  With strict_names false, List and ListR give
\* without error exactly the underlying entries (objects and directories)
\* whose names decrypt, in the order of the underlying listing.
C12_NonStrictListing ==
    (ListingServed /\ ~opt.StrictNames)
    => /\ res.err = ""
       /\ res.out = WrappedAll(SelectSeq(Flatten(ListGiven.tranches),
                                         Decrypts))

C12_Witness ==
    /\ ListingServed /\ ~opt.StrictNames /\ res.op = "ListR"
    /\ Len(ListGiven.tranches) = 2
    /\ Undecryptable(ListGiven.tranches[1][1])
    /\ Decrypts(ListGiven.tranches[2][1])
    /\ res.err = "" /\ Len(res.out) = 1
    /\ res.out[1].under = ListGiven.tranches[2][1].remote

\* the tranches that hold a name that does not decrypt
BadTranches ==
    {t \in 1..Len(ListGiven.tranches) :
        \E i \in 1..Len(ListGiven.tranches[t]) :
           Undecryptable(ListGiven.tranches[t][i])}

FirstBadTranche == ListGiven.tranches[First(BadTranches)]

\* C13 as claimed: with strict_names true, a listing with an undecryptable
\* name gives an error and no entries, the error reporting the number of
\* undecryptable names of the listing and the first of them.
C13_StrictListingAsClaimed ==
    (ListingServed /\ opt.StrictNames)
    => IF BadTranches = {}
       THEN res.err = ""
            /\ res.out = WrappedAll(Flatten(ListGiven.tranches))
       ELSE /\ res.err = "UndecryptableNames" /\ res.out = <<>>
            /\ res.size = Len(SelectSeq(Flatten(ListGiven.tranches),
                                        Undecryptable))
            /\ res.reqs[1].remote
                 = SelectSeq(Flatten(ListGiven.tranches),
                             Undecryptable)[1].remote

\* C13: Strict listing.  With strict_names true, if no name of the
\* underlying listing is undecryptable all entries are returned; otherwise
\* the listing fails at the first tranche that holds an undecryptable name
\* (for List: the whole listing), with an error that reports the number of
\* undecryptable names of that tranche - all of its entries are examined -
\* and the first of them; no entry of that tranche or a later one is
\* given, the tranches before it have been given to the callback.
C13_StrictListing ==
    (ListingServed /\ opt.StrictNames)
    => IF BadTranches = {}
       THEN res.err = ""
            /\ res.out = WrappedAll(Flatten(ListGiven.tranches))
       ELSE /\ res.err = "UndecryptableNames"
            /\ res.size = Len(SelectSeq(FirstBadTranche, Undecryptable))
            /\ res.reqs[1].remote
                 = SelectSeq(FirstBadTranche, Undecryptable)[1].remote
            /\ res.reqs[1].err # ""
            /\ res.out = WrappedAll(Flatten(SubSeq(ListGiven.tranches, 1,
                                                   First(BadTranches) - 1)))
            /\ res.op = "List" => res.out = <<>>

C13_Witness ==
    /\ ListingServed /\ opt.StrictNames /\ res.op = "List"
    /\ Len(ListGiven.tranches[1]) = 2
    /\ Undecryptable(ListGiven.tranches[1][1])
    /\ Undecryptable(ListGiven.tranches[1][2])
    /\ ListGiven.tranches[1][1] # ListGiven.tranches[1][2]
    /\ res.err = "UndecryptableNames" /\ res.size = 2 /\ res.out = <<>>
    /\ res.reqs[1].remote = ListGiven.tranches[1][1].remote

\* C14: no_data_encryption pass-through.  With no_data_encryption set,
\* Put, PutStream, Update and PutUnchecked hand the plaintext to the
\* underlying store as it is (no header, no sealing, no footer) and
\* announce its size, and Open hands out the stored bytes as they are.
C14_PassThrough ==
    opt.NoDataEncryption
    => /\ (res.op \in {"put", "update", "putUnchecked"} /\ res.err = "")
          => /\ obj.ct = <<PlainItem(obj.p)>>
             /\ res.sent = obj.p
             /\ res.size \in {-1, obj.p}
       /\ (res.op = "open" /\ obj.exists /\ obj.ct = <<PlainItem(obj.p)>>
              /\ AskedOffset <= obj.p)
          => (res.err = "EOF" /\ res.out = Suffix(AskedOffset, obj.p))

\* the source whose hash was computed
HashedSource == res.options[1]

\* C15: Deterministic re-encryption.  With data encryption on and the
\* passwords the object was stored with, ComputeHash(o, src) for a src whose
\* content is the object's plaintext returns the hash of the ciphertext
\* stored, and so does ObjectInfo.Hash for a local source during the
\* upload.
C15_Reencryption ==
    /\ (res.op = "computeHash" /\ Intact /\ ReaderKeyed
           /\ HashedSource.size = obj.p /\ ~HashedSource.openErr)
       => (res.err = "" /\ res.out = obj.ct)
    /\ (res.op = "infoHash" /\ Intact /\ ReaderKeyed /\ HashedSource.local)
       => (res.err = "" /\ res.out = obj.ct)

\* C16: show-cek.  For every name whose stored object is in V1 format the
\* command fails with NoCEKInV1 and emits no key; it emits keys only for V2
\* objects, each the CEK unwrapped from the header under dataKey.
ShowCekOnStored == res.op = "showCek" /\ Intact /\ Head(res.options) = StoredName

C16_ShowCek ==
    ShowCekOnStored
    => /\ obj.version = CipherVersionV1
          => (res.err = "NoCEKInV1" /\ res.out = <<>>)
       /\ res.out # <<>>
          => /\ obj.version = CipherVersionV2
             /\ dataKey = obj.master
             /\ \A i \in 1..Len(res.out) : res.out[i] = obj.cek

\* C17 as stated: Object.Hash on an object stored in V1 format returns the
\* empty string with no error under either configured cipher_version.
HashOnV1 == res.op = "hash" /\ Intact /\ obj.version = CipherVersionV1

C17_HashOnV1AsClaimed ==
    HashOnV1 => (res.err = "" /\ res.hash = NoHash)

\* C17: Object.Hash on an object stored in V1 format returns no hash: the
\* empty string with no error when cipher_version v2 is configured, and
\* the "unsupported" error when cipher_version v1 is configured.
C17_HashOnV1 ==
    HashOnV1
    => /\ res.hash = NoHash
       /\ res.err = IF opt.CipherVersion = CipherVersionV1
                    THEN "ErrUnsupported" ELSE ""

C17_Witness ==
    /\ HashOnV1 /\ opt.CipherVersion = CipherVersionV2
    /\ res.err = "" /\ res.hash = NoHash

\* Object.Hash was called on an object stored in V2 format (the store may
\* have cut it or flipped a bit of it since)
HashOnV2 == res.op = "hash" /\ obj.exists /\ obj.version = CipherVersionV2

\* what Object.Hash reads of the stored bytes: the header, the footer's
\* header byte and the sealed hash
HashHeaderRead == getDecrypter(obj.ct, NoKey)
FooterRead == SizeOf(obj.ct) >= HashEncryptedSizeWithHeader
FooterHeaderByte ==
    ItemAt(obj.ct, SizeOf(obj.ct) - HashEncryptedSizeWithHeader, 1).b
SealedFooter ==
    ItemAt(obj.ct, SizeOf(obj.ct) - HashEncryptedSize, HashEncryptedSize)
FooterSizeBasis ==
    IF opt.ExactSize THEN DecryptedSizeExact(obj.ct)
    ELSE DecryptedSize(SizeOf(obj.ct), HashHeaderRead.cipherVersion)

\* the sealed footer opens under the CEK and the derived footer nonce
FooterOpens ==
    /\ HashHeaderRead.err = "" /\ FooterRead /\ FooterSizeBasis.err = ""
    /\ OpensUnder(SealedFooter,
                  HashNonce(HashHeaderRead.nonce, FooterSizeBasis.size),
                  HashHeaderRead.cek)

\* C18: Authenticated hash retrieval.  For a V2 object Object.Hash returns
\* "unsupported" when the footer's header byte is 0x00; without
\* pass_bad_blocks a hash value is returned only if the sealed footer opened
\* under the CEK and the derived footer nonce, and an authentication failure
\* or a footer of fewer than 33 bytes gives an error and no hash; a footer
\* that fails to authenticate is no error only with pass_bad_blocks.
C18_AuthenticatedHash ==
    HashOnV2
    => /\ (HashHeaderRead.err = "" /\ FooterRead
              /\ FooterHeaderByte = HashHeaderNoHash)
          => (res.err = "ErrUnsupported" /\ res.hash = NoHash)
       /\ res.hash # NoHash => (FooterOpens /\ res.err = "")
       /\ (~opt.PassBadBlocks /\ (~FooterOpens \/ ~FooterRead))
          => (res.err # "" /\ res.hash = NoHash)
       /\ (~FooterOpens /\ res.err = "") => opt.PassBadBlocks

\* a bit of the sealed footer was flipped and Object.Hash refused it
C18_Witness ==
    /\ HashOnV2 /\ ~opt.PassBadBlocks /\ obj.mod = "flip"
    /\ HashHeaderRead.err = "" /\ FooterHeaderByte = HashHeaderMD5
    /\ ~FooterOpens
    /\ res.err = "BadBlock" /\ res.hash = NoHash

(***************************************************************************)
(* The nonce on its own: a start nonce, incremented step by step, and the  *)
(* same count added to the start nonce in one add.                         *)
(***************************************************************************)
\* `low` bytes of 255, then the byte v, then bytes hi
NoncePattern(low, v, hi) ==
    [i \in 1..fileNonceSize |->
        IF i <= low THEN 255 ELSE IF i = low + 1 THEN v ELSE hi]

NonceInputs ==
    {NoncePattern(low, v, hi) :
        low \in {0, 1, 2, 3, 7, 8, 9, fileNonceSize - 2, fileNonceSize - 1},
        v \in {0, 254, 255}, hi \in {0, 255}}

\* res during nonce arithmetic: the start nonce n0, the count of increments
\* made on it, the nonce they left (cur) and what add(n0, cnt) gave (sum)
Counted(op, n0, cnt, cur, sum) ==
    [op |-> op, n0 |-> n0, cnt |-> cnt, cur |-> cur, sum |-> sum]

InitNonce ==
    /\ opt = Options(CipherVersionV2, FALSE, FALSE, FALSE, "standard", TRUE,
                     "base32", SuffixBin, FALSE)
    /\ dataKey = "master1"
    /\ obj = NoObj
    /\ wobj = NewWrapper
    /\ \E n \in NonceInputs :
          res = Counted("random", n, 0, NonceResult(n, ""),
                        NonceResult(n, ""))

\* nonce.increment() on the current nonce; NonceOverflow is fatal
Increment ==
    /\ res.cur.err = ""
    /\ res.cnt < MaxIncrements
    /\ res' = Counted("increment", res.n0, res.cnt + 1,
                      incrementOrFail(res.cur.n), NonceResult(res.n0, ""))
    /\ UNCHANGED <<opt, dataKey, obj, wobj>>

\* nonce.add(cnt) on a copy of the start nonce
Add ==
    /\ res.op = "increment"
    /\ res' = [res EXCEPT !.op = "add", !.sum = addOrFail(res.n0, res.cnt)]
    /\ UNCHANGED <<opt, dataKey, obj, wobj>>

NextNonce ==
    \/ Increment
    \/ Add

SpecNonce == InitNonce /\ [][NextNonce]_vars

\* the three low bytes of a nonce read as a little-endian number
LowValue(n) == n[1] + 256 * n[2] + 65536 * n[3]

\* a is the larger counter: at the topmost byte they differ in, a's is larger
Above(a, b) ==
    \E i \in 1..Len(a) :
        /\ a[i] > b[i]
        /\ \A j \in (i + 1)..Len(a) : a[j] = b[j]

SizeCalled == res.op = "size" /\ obj.exists
RecordedVersion == res.options[1]
SizeReadsHeader ==
    ~opt.NoDataEncryption /\ opt.ExactSize /\ RecordedVersion = ""
\* the header read succeeds: the object is as it was stored and the remote
\* has the passwords it was stored under
SizeHeaderRead == Intact /\ obj.master = dataKey
SizeWithoutRead ==
    DecryptedSize(SizeOf(obj.ct),
                  IF RecordedVersion # "" THEN RecordedVersion
                  ELSE opt.CipherVersion).size

\* C20 as stated: Object.Size reads the header iff data encryption is on,
\* exact_size is set and no version is recorded on the object, and then
\* reports the plaintext size under the version of the magic bytes; in
\* every other case it reports decryptedSize(ciphertext size,
\* recorded-or-configured version) without a read.
C20_SizeAsClaimed ==
    SizeCalled
    => /\ res.reqs # <<>> <=> SizeReadsHeader
       /\ (SizeReadsHeader /\ SizeHeaderRead)
          => /\ res.reqs = <<getDecrypterRequest>>
             /\ res.size = DecryptedSize(SizeOf(obj.ct), obj.version).size
             /\ res.size = obj.p
       /\ ~SizeReadsHeader => res.size = SizeWithoutRead

\* C20: as stated while data encryption is on; with no_data_encryption
\* Object.Size reports the size of the stored object as it is, without a
\* read.
C20_Size ==
    SizeCalled
    => /\ res.reqs # <<>> <=> SizeReadsHeader
       /\ (SizeReadsHeader /\ SizeHeaderRead)
          => /\ res.reqs = <<getDecrypterRequest>>
             /\ res.size = DecryptedSize(SizeOf(obj.ct), obj.version).size
             /\ res.size = obj.p
       /\ (~SizeReadsHeader /\ ~opt.NoDataEncryption)
          => res.size = SizeWithoutRead
       /\ opt.NoDataEncryption => res.size = SizeOf(obj.ct)

\* the size of an object stored in the version that is not the configured
\* one, read from its header
C20_Witness ==
    /\ SizeCalled /\ SizeReadsHeader /\ SizeHeaderRead
    /\ obj.version # opt.CipherVersion
    /\ obj.p > blockDataSize
    /\ res.size = obj.p
    /\ res.size # DecryptedSize(SizeOf(obj.ct), opt.CipherVersion).size

(***************************************************************************)
(* A write seen as pull steps: the store that receives the upload reads    *)
(* io.MultiReader(encrypter, lazy footer); the encrypter reads the         *)
(* plaintext through the io.TeeReader that feeds the hasher.               *)
(***************************************************************************)
\* one block of encrypter.Read: the plaintext bytes [lo, hi) sealed under
\* the encrypter's nonce, which is then incremented
encryptBlock(p, lo, n, key) ==
    LET hi == Min(p, lo + blockDataSize)
        bn == IF hi = p THEN setLastBlockFlag(n) ELSE n
    IN  [out |-> Seal(DataPt(lo, hi), hi - lo, bn, key), hi |-> hi,
         nonce |-> increment(bn)]

\* how far the encrypter may have read the plaintext when it emits the
\* block that ends at hi: a block that is not the last is known not to be
\* only once plaintext after it has been read
ReadAheads(p, hi) ==
    IF hi = p THEN {p}
    ELSE {Min(p, hi + 1), Min(p, hi + blockDataSize)}

\* the start nonces of the writes: those of RandomNonces and one whose
\* increments carry into the last byte
WriteNonces(version) ==
    RandomNonces(version)
    \cup {IF version = CipherVersionV2
          THEN NoncePattern(fileNonceSizeV2, 0, 0)
          ELSE NoncePattern(fileNonceSize - 1, lastBlockFlag - 1, 0)}

\* the mutant of hashEndReaderLazy that seals under the nonce of the block
\* emitted last
hashEndReaderStale(w) ==
    wrapReaderAppendPlaintextHash(
        <<>>, w.hashed,
        IF w.out[Len(w.out)].item.pt.kind = "data"
        THEN w.out[Len(w.out)].item.n ELSE w.nonce,
        w.cek)

\* the mutant of multiReaderServes that turns to the footer at once
multiReaderServesSecond(w) ==
    IF w.version = CipherVersionV2 /\ w.stage = "blocks" THEN "footer"
    ELSE w.stage

\* io.MultiReader(in, hashEndReaderLazy): the reader the next pull is served
\* by; the second is reached when the first has returned EOF
multiReaderServes(w) == w.stage

\* the function of the lazy reader: the hasher's sum of what the tee has
\* passed, sealed under the encrypter's nonce with its last byte set
hashEndReaderLazy(w) ==
    wrapReaderAppendPlaintextHash(<<>>, w.hashed, w.nonce, w.cek)

\* res during a write: the plaintext size p, the bytes the tee has passed to
\* the encrypter and the hasher, the items emitted so far, each with the
\* count of plaintext bytes consumed when it was emitted, and for the footer
\* the stage it was sealed in
Writing(version, p, start, cek, stage, hashed, nonce, out, sealed) ==
    [op |-> "write", version |-> version, p |-> p, start |-> start,
     cek |-> cek, stage |-> stage, hashed |-> hashed, nonce |-> nonce,
     out |-> out, sealed |-> sealed]

Emitted(w, items) ==
    [i \in 1..Len(items) |-> [item |-> items[i], consumed |-> w.hashed]]

InitWrite ==
    /\ opt \in {c \in Configs : /\ ~c.NoDataEncryption /\ ~c.PassBadBlocks
                                /\ ~c.ExactSize}
    /\ dataKey = "master1"
    /\ obj = NoObj
    /\ wobj = NewWrapper
    /\ \E p \in PlainSizes, n \in WriteNonces(opt.CipherVersion),
          c \in RandomCeks :
          res = Writing(opt.CipherVersion, p, n, c, "header", 0, n,
                        <<>>, <<>>)

\* the first pull: the file header
PullHeader ==
    /\ res.op = "write" /\ multiReaderServes(res) = "header"
    /\ res' = [res EXCEPT
                  !.stage = "blocks",
                  !.out = Emitted(res, encryptHeader(res.start, res.cek,
                                                     res.version, dataKey))]
    /\ UNCHANGED <<opt, dataKey, obj, wobj>>

\* a pull served by encrypter.Read with plaintext left: one sealed block
PulledBlock(w, e, ahead) ==
    res' = [w EXCEPT !.hashed = ahead, !.nonce = e.nonce,
                     !.out = w.out \o Emitted([w EXCEPT !.hashed = ahead],
                                              <<e.out>>)]

BlocksEmitted(w) ==
    Len(SelectSeq(w.out, LAMBDA x : x.item.pt.kind = "data"))

PullBlock(ahead) ==
    /\ res.op = "write" /\ multiReaderServes(res) = "blocks"
    /\ BlocksEmitted(res) * blockDataSize < res.p
    /\ ahead >= res.hashed
    /\ PulledBlock(res,
                   encryptBlock(res.p, BlocksEmitted(res) * blockDataSize,
                                res.nonce,
                                BlockKey(res.version, dataKey, res.cek)),
                   ahead)
    /\ UNCHANGED <<opt, dataKey, obj, wobj>>

\* a pull served by encrypter.Read with no plaintext left: EOF, and the
\* MultiReader turns to its next reader (V2) or has none (V1)
BlockStreamEOF ==
    /\ res.op = "write" /\ multiReaderServes(res) = "blocks"
    /\ BlocksEmitted(res) * blockDataSize >= res.p
    /\ res' = [res EXCEPT !.stage = IF res.version = CipherVersionV2
                                    THEN "footer" ELSE "done"]
    /\ UNCHANGED <<opt, dataKey, obj, wobj>>

\* the first pull served by the lazy reader: its function runs, and the
\* footer it made is read
PullFooter ==
    /\ res.op = "write" /\ multiReaderServes(res) = "footer"
    /\ res' = [res EXCEPT
                  !.stage = IF res.stage = "footer" THEN "done" ELSE @,
                  !.sealed = Append(@, [hashed |-> res.hashed,
                                        blocks |-> BlocksEmitted(res),
                                        stage |-> res.stage]),
                  !.out = @ \o Emitted(res, hashEndReaderLazy(res))]
    /\ Len(res.sealed) < 2
    /\ UNCHANGED <<opt, dataKey, obj, wobj>>

\* the stream has ended and its bytes are what the store keeps
WriteEOF ==
    /\ res.op = "write" /\ multiReaderServes(res) = "done"
    /\ res' = [res EXCEPT !.op = "written"]
    /\ obj' = [exists |-> TRUE,
               ct |-> [i \in 1..Len(res.out) |-> res.out[i].item],
               p |-> res.p, nonce |-> res.start,
               cek |-> IF res.version = CipherVersionV2 THEN res.cek
                       ELSE NoKey,
               version |-> res.version, master |-> dataKey, mod |-> "none"]
    /\ UNCHANGED <<opt, dataKey, wobj>>

NextWrite ==
    \/ PullHeader
    \/ \E ahead \in ReadAheads(res.p, Min(res.p, (BlocksEmitted(res) + 1)
                                                 * blockDataSize)) :
          PullBlock(ahead)
    \/ BlockStreamEOF
    \/ PullFooter
    \/ WriteEOF

SpecWrite == InitWrite /\ [][NextWrite]_vars

WriteSteps == res.op \in {"write", "written"}
IsFooterItem(x) == x.item.t = "byte" \/ x.item.pt.kind = "md5"
IsBlockItem(x) == x.item.pt.kind = "data"
FooterAt == {i \in 1..Len(res.out) : IsFooterItem(res.out[i])}
BlockAt == {i \in 1..Len(res.out) : IsBlockItem(res.out[i])}

\* C21: Write ordering and lazy footer.  In every V2 write the ciphertext of
\* a block is emitted only when its plaintext has been consumed; the hash
\* is finalized and the footer sealed only after the block stream has
\* returned end-of-stream, so it covers the whole plaintext; the 33-byte
\* footer is emitted exactly once, after the last data block.  The bytes
\* emitted are those of encryptData.
C21_WriteOrdering ==
    (WriteSteps /\ res.version = CipherVersionV2)
    => /\ \A i \in BlockAt :
             res.out[i].consumed >= res.out[i].item.pt.hi
       /\ \A k \in 1..Len(res.sealed) :
             /\ res.sealed[k].stage = "footer"
             /\ res.sealed[k].hashed = res.p
             /\ res.sealed[k].blocks = CeilDiv(res.p, blockDataSize)
       /\ Len(res.sealed) <= 1
       /\ \A i \in FooterAt :
             /\ \A j \in BlockAt : j < i
             /\ i > Len(res.out) - 2
             /\ res.out[i].item.pt.kind = "md5"
                => res.out[i].item.pt.hi = res.p
       /\ FooterAt # {}
          => /\ Cardinality(FooterAt) = 2
             /\ res.out[Len(res.out) - 1].item.len
                  + res.out[Len(res.out)].item.len
                = HashEncryptedSizeWithHeader
       /\ res.stage = "done" <=> FooterAt # {}
       /\ res.op = "written"
          => obj.ct = encryptData(res.p, res.start, res.cek, res.version,
                                  dataKey)

\* a write of more than one block ended, its footer sealed once
C21_Witness ==
    /\ res.op = "written" /\ res.version = CipherVersionV2
    /\ res.p > blockDataSize
    /\ Len(res.sealed) = 1 /\ Cardinality(BlockAt) = 2
    /\ Cardinality(FooterAt) = 2

\* the options Object.Open was given less those it consumes
Forwarded ==
    SelectSeq(res.options,
              LAMBDA x : x.kind \notin {"seek", "range", "cek"})

\* a request of the form the callback makes for (offset, limit)
RequestFor(req, offset, limit) ==
    IF offset = 0 /\ limit < 0
    THEN ~req.range
    ELSE /\ req.range /\ req.start = offset
         /\ req.end = IF limit >= 0 /\ offset + limit - 1 < SizeOf(obj.ct)
                      THEN offset + limit - 1 ELSE -1

\* C22: Underlying range of Open.  Every request the decrypter of an
\* encrypted object makes to the underlying store is a plain open (offset 0,
\* no limit) or a range with Start = the underlying offset and End either -1
\* or offset + limit - 1 below the underlying size, a computed End at or
\* past the size being replaced by -1; the caller's Seek, Range and Cek
\* options are not forwarded, every other option is, on every (re)open.
C22_UnderlyingRange ==
    (res.op \in {"open", "reopen"} /\ obj.exists /\ ~opt.NoDataEncryption)
    => /\ \A i \in 1..Len(res.reqs) :
             /\ res.reqs[i].opts = Forwarded
             /\ ~res.reqs[i].range
                => (res.reqs[i].start = 0 /\ res.reqs[i].end = -1)
             /\ res.reqs[i].range
                => \/ res.reqs[i].end = -1
                   \/ /\ res.reqs[i].end >= res.reqs[i].start - 1
                      /\ res.reqs[i].end < SizeOf(obj.ct)
       /\ res.op = "reopen"
          => RequestFor(res.reqs[1], res.out[1], res.out[2])
       /\ (res.op = "open" /\ AskedOffset = 0) => ~res.reqs[1].range

\* a reopen whose computed End lies past the object's end, with an option
\* to pass on
C22_Witness ==
    /\ res.op = "reopen" /\ obj.exists /\ ~opt.NoDataEncryption
    /\ res.out[1] > 0 /\ res.out[2] > 0
    /\ res.out[1] + res.out[2] - 1 >= SizeOf(obj.ct)
    /\ res.reqs[1].range /\ res.reqs[1].end = -1
    /\ Len(res.options) = 2 /\ res.reqs[1].opts = <<OtherOption>>

\* the sealed items of the object a write left
Written == res.op = "written" /\ obj.exists
Sealed == {i \in 1..Len(obj.ct) : obj.ct[i].t = "box"}
SealedUnder(i) == <<obj.ct[i].key, obj.ct[i].n>>

\* C23: Key/nonce uniqueness within an object.  No two sealed items of a
\* written object - the wrapped CEK, the data blocks, the V2 hash footer -
\* are sealed under the same (key, nonce) pair; the footer's nonce is not
\* the flagged nonce of the last data block; in V2 the master key seals the
\* CEK and nothing else.
C23_KeyNonceUnique ==
    Written
    => /\ \A i \in Sealed : \A j \in Sealed :
             i # j => SealedUnder(i) # SealedUnder(j)
       /\ obj.version = CipherVersionV2
          => /\ \A i \in Sealed :
                   /\ obj.ct[i].key = dataKey <=> obj.ct[i].pt.kind = "cek"
                   /\ obj.ct[i].pt.kind \in {"data", "md5"}
                      => obj.ct[i].key = res.cek
             /\ \A i \in Sealed : \A j \in Sealed :
                   (obj.ct[i].pt.kind = "md5" /\ obj.ct[j].pt.kind = "data")
                   => obj.ct[i].n # obj.ct[j].n
       /\ obj.version = CipherVersionV1
          => \A i \in Sealed : obj.ct[i].key = dataKey

\* a V2 object of two blocks whose nonces carried into the last byte
C23_Witness ==
    /\ Written /\ obj.version = CipherVersionV2
    /\ Cardinality(Sealed) = 4
    /\ obj.nonce = NoncePattern(fileNonceSizeV2, 0, 0)
    /\ obj.ct[Len(obj.ct)].n[fileNonceSize] = lastBlockFlag
    /\ obj.ct[Len(obj.ct) - 2].n[fileNonceSize] = lastBlockFlag + 1

\* C24: Hash type honoured.  Object.Hash(ht) returns a hash only when ht is
\* MD5, the one type Fs.Hashes advertises under cipher_version v2; for every
\* other type it returns "unsupported" or the empty string.
C24_HashType ==
    res.op = "hash"
    => /\ res.hash # NoHash
          => (res.options[1] = "md5" /\ res.options[1] \in fsHashes)
       /\ res.options[1] \notin fsHashes
          => (res.hash = NoHash /\ res.err \in {"", "ErrUnsupported"})

\* C25: No leaked read handles.  When Object.Hash returns, with a hash or
\* with an error, every read handle it opened on the underlying object -
\* those of getDecrypter for the header, and the one of the footer read -
\* has been closed.
C25_NoLeakedHandles ==
    res.op = "hash" => \A i \in 1..Len(res.reqs) : res.reqs[i].closed

\* the triples of the decrypt command's arguments, and those whose CEK is
\* not the hex of exactly fileCekSize bytes
Triples == 1..(Len(res.options) \div 3)
CekOf(k) == res.options[3 * k - 1]
BadCekTriples ==
    {k \in Triples : ~CekOf(k).hex \/ CekOf(k).len # fileCekSize}
FirstBadCek == CHOOSE k \in BadCekTriples : \A j \in BadCekTriples : k <= j

\* C26: decrypt command argument validation.  The command returns an error
\* and does not crash, and opens and writes nothing for the offending
\* triple, when the count of arguments is no multiple of 3 or a CEK
\* argument is not the hex of exactly 32 bytes; triples are processed in
\* order up to the first that fails, and what was written for the triples
\* before it stays.
C26_DecryptArguments ==
    res.op = "decryptArgs"
    => /\ ~res.crashed
       /\ Len(res.options) % 3 # 0
          => (res.err # "" /\ res.opened = <<>> /\ res.written = <<>>)
       /\ (Len(res.options) % 3 = 0 /\ BadCekTriples # {})
          => /\ res.err # ""
             /\ Len(res.opened) < FirstBadCek
             /\ Len(res.written) < FirstBadCek
       /\ \A j \in 1..Len(res.written) : res.written[j] = res.options[3 * j]
       /\ res.err = "" => Len(res.written) = Len(res.options) \div 3

====
